---------------------------- MODULE Spec2Model ----------------------------
(***************************************************************************)
(* Poseidon permutation, parameter engine and sponge collaborators.        *)
(*                                                                         *)
(* The prime field F of the crate is a type parameter; here it is the      *)
(* prime field of MODULUS elements, small enough to enumerate.  Arrays     *)
(* [F; T] and matrices are functions over 0..T-1 (the source's indices);   *)
(* Vec<_> values are sequences (index i of the source is i+1 here).        *)
(***************************************************************************)
EXTENDS Integers, Sequences, FiniteSets, TLC

(***************************************************************************)
(* Geometry and field                                                      *)
(***************************************************************************)
RATE == 2

T == 3

MODULUS == 23

F == 0 .. (MODULUS - 1)

Lanes == 0 .. (T - 1)

RECURSIVE BitLen(_)
BitLen(n) == IF n = 0 THEN 0 ELSE 1 + BitLen(n \div 2)

\* F::NUM_BITS
NUM_BITS == BitLen(MODULUS)

\* F::Repr::default().as_ref().len()
n_bytes == (NUM_BITS + 7) \div 8

Pow2(n) == 2 ^ n

FAdd(a, b) == (a + b) % MODULUS

FSub(a, b) == (a + MODULUS - b) % MODULUS

FMul(a, b) == (a * b) % MODULUS

\* Field::invert: CtOption, None for zero.  <<>> is None, <<x>> is Some(x).
FInvert(a) ==
  IF a % MODULUS = 0 THEN << >>
  ELSE << CHOOSE b \in F : (a * b) % MODULUS = 1 >>

\* `let x = v; Op(x)`: v is evaluated once, in full, and x is bound to its value.
\* Operators below that use an argument more than once are always applied to
\* names bound this way (or to a field or an entry of one).
Let(v, Op(_)) == CHOOSE y \in { Op(x) : x \in { z \in {v} : z = z } } : TRUE

\* F::from_u128(v) for v = 2^e, by squaring
RECURSIVE FPow2(_)
FPow2(e) ==
  IF e = 0 THEN 1 % MODULUS
  ELSE Let(FPow2(e \div 2),
           LAMBDA h : IF e % 2 = 0 THEN FMul(h, h) ELSE FMul(2, FMul(h, h)))

ZeroVec(n) == [i \in 0 .. (n - 1) |-> 0]

(***************************************************************************)
(* matrix.rs                                                               *)
(***************************************************************************)
Dim(m) == Cardinality(DOMAIN m)

zero_matrix(n) == [i \in 0 .. (n - 1) |-> [j \in 0 .. (n - 1) |-> 0]]

identity(n) == [i \in 0 .. (n - 1) |-> [j \in 0 .. (n - 1) |-> IF i = j THEN 1 ELSE 0]]

transpose(m) == [j \in DOMAIN m |-> [i \in DOMAIN m |-> m[i][j]]]

\* sum over k .. n-1 of a[k] * v[k]
RECURSIVE DotFrom(_, _, _, _)
DotFrom(a, v, k, n) ==
  IF k = n THEN 0 ELSE FAdd(FMul(a[k], v[k]), DotFrom(a, v, k + 1, n))

Dot(a, v) == DotFrom(a, v, 0, Dim(a))

\* result[i][j] += self[i][k] * other[k][j], for k .. n-1
RECURSIVE MulEntry(_, _, _, _, _, _)
MulEntry(a, b, i, j, k, n) ==
  IF k = n THEN 0 ELSE FAdd(FMul(a[i][k], b[k][j]), MulEntry(a, b, i, j, k + 1, n))

mul(a, b) ==
  [i \in DOMAIN a |-> [j \in DOMAIN a |-> MulEntry(a, b, i, j, 0, Dim(a))]]

mul_vector(a, v) == [i \in DOMAIN a |-> DotFrom(a[i], v, 0, Dim(v))]

\* Row j of the augmented matrix after `m[j][k] -= r * m[i][k]` for k in 0..2T,
\* with r = m[j][i] * m[i][i].invert().unwrap()
ElimRow(m, i, j) ==
  Let(FMul(m[j][i], FInvert(m[i][i])[1]),
      LAMBDA r : [k \in DOMAIN m[j] |-> FSub(m[j][k], FMul(r, m[i][k]))])

\* elimination that skips a zero pivot (`if let Some(inv) = ..invert()`)
\* instead of unwrapping it
RECURSIVE InvertElim_skip(_, _, _, _)
InvertElim_skip(m, n, i, j) ==
  IF i = n THEN [panic |-> FALSE, m |-> m]
  ELSE IF j = n THEN InvertElim_skip(m, n, i + 1, 0)
  ELSE IF i = j THEN InvertElim_skip(m, n, i, j + 1)
  ELSE IF FInvert(m[i][i]) = << >> THEN InvertElim_skip(m, n, i, j + 1)
  ELSE Let([m EXCEPT ![j] = ElimRow(m, i, j)],
           LAMBDA m2 : InvertElim_skip(m2, n, i, j + 1))

\* The double loop `for i in 0..T { for j in 0..T { if i != j {..} } }` of
\* invert, from position (i, j) on.  A zero pivot makes unwrap() panic.
RECURSIVE InvertElim(_, _, _, _)
InvertElim(m, n, i, j) ==
  IF i = n THEN [panic |-> FALSE, m |-> m]
  ELSE IF j = n THEN InvertElim(m, n, i + 1, 0)
  ELSE IF i = j THEN InvertElim(m, n, i, j + 1)
  ELSE IF FInvert(m[i][i]) = << >> THEN [panic |-> TRUE, m |-> m]
  ELSE Let([m EXCEPT ![j] = ElimRow(m, i, j)],
           LAMBDA m2 : InvertElim(m2, n, i, j + 1))

\* `row[j] *= row[i].invert().unwrap()` for j in T..2T, every row i
InvertScale(m, n) ==
  IF \E i \in 0 .. (n - 1) : FInvert(m[i][i]) = << >>
  THEN [panic |-> TRUE, m |-> m]
  ELSE [panic |-> FALSE,
        m |-> [i \in 0 .. (n - 1) |->
                 [k \in 0 .. (2 * n - 1) |->
                    IF k >= n THEN FMul(m[i][k], FInvert(m[i][i])[1])
                    ELSE m[i][k]]]]

\* The rows `v_row ++ u_row` of self and the identity
Augmented(a, n) ==
  [i \in 0 .. (n - 1) |->
     [k \in 0 .. (2 * n - 1) |->
        IF k < n THEN a[i][k] ELSE IF i = k - n THEN 1 ELSE 0]]

\* The right half of the eliminated and scaled augmented matrix
InvertResult(a, n, e) ==
  IF e.panic THEN [panic |-> TRUE, m |-> a]
  ELSE Let(InvertScale(e.m, n),
           LAMBDA s :
             IF s.panic THEN [panic |-> TRUE, m |-> a]
             ELSE [panic |-> FALSE,
                   m |-> [i \in 0 .. (n - 1) |->
                            [j \in 0 .. (n - 1) |-> s.m[i][j + n]]]])

\* Matrix::invert: Gauss-Jordan on [A | I] without pivot search
invert(a) ==
  Let(Augmented(a, Dim(a)),
      LAMBDA aug : Let(InvertElim(aug, Dim(a), 0, 0),
                       LAMBDA e : InvertResult(a, Dim(a), e)))

\* Matrix::w: first column without its top entry
w(a) == [i \in 0 .. (Dim(a) - 2) |-> a[i + 1][0]]

\* Matrix::sub: bottom-right block
sub(a) == [i \in 0 .. (Dim(a) - 2) |-> [j \in 0 .. (Dim(a) - 2) |-> a[i + 1][j + 1]]]

(***************************************************************************)
(* grain.rs                                                                *)
(***************************************************************************)
Xor(a, b) == a # b

\* append_bits that pushes the least significant bit first
append_bits_lsb(vec, n, val) ==
  vec \o [k \in 1 .. n |-> (val \div Pow2(k - 1)) % 2 # 0]

\* append_bits: the n low bits of val, most significant first
append_bits(vec, n, val) ==
  vec \o [k \in 1 .. n |-> (val \div Pow2(n - k)) % 2 # 0]

FIELD_TYPE == 1

SBOX_TYPE == 0

WARMUP == 160

PAD_ONES == Pow2(30) - 1

\* The register Grain::generate builds before the warm-up
InitialBits(t, r_f, r_p) ==
  append_bits(
    append_bits(
      append_bits(
        append_bits(
          append_bits(
            append_bits(
              append_bits(<< >>, 2, FIELD_TYPE),
              4, SBOX_TYPE),
            12, NUM_BITS),
          12, t),
        10, r_f % 65536),
      10, r_p % 65536),
    30, PAD_ONES)

\* new_bit without the tap at position 62
new_bit_short(bs) ==
  Let(Xor(Xor(Xor(Xor(bs[1], bs[52]), bs[39]), bs[24]), bs[14]),
      LAMBDA b : [g |-> Append(Tail(bs), b), out |-> b])

\* Grain::new_bit: fold of bit_sequence[0] over positions 62, 51, 38, 23, 13
new_bit(bs) ==
  Let(Xor(Xor(Xor(Xor(Xor(bs[1], bs[63]), bs[52]), bs[39]), bs[24]), bs[14]),
      LAMBDA b : [g |-> Append(Tail(bs), b), out |-> b])

\* `for _ in 0..k { grain.new_bit(); }`; the k iterations are run as two
\* halves, one after the other
RECURSIVE Warm(_, _)
Warm(bs, k) ==
  IF k = 0 THEN bs
  ELSE IF k = 1 THEN new_bit(bs).g
  ELSE Let(Warm(bs, k \div 2), LAMBDA half : Warm(half, k - (k \div 2)))

\* next that keeps the bit after the first one, whatever the first one is
next_second_bit(bs) ==
  Let(new_bit(bs),
      LAMBDA a : Let(new_bit(a.g),
                     LAMBDA b : [g |-> b.g, out |-> b.out, advances |-> 2]))

\* `while !self.new_bit() { self.new_bit(); }`: the number of pairs of bits the
\* loop discards, the first pair that starts with a 1 looked for among the
\* first k pairs and, when none of them does, among the first 2k.  PairBit(j)
\* is the first bit of pair j: what the (2j + 1)-th call of new_bit returns.
RECURSIVE Discarded(_, _)
Discarded(bs, k) ==
  LET PairBit(j) == Warm(bs, 2 * j + 1)[Len(bs)]
  IN  IF \E j \in 0 .. (k - 1) : PairBit(j)
      THEN CHOOSE j \in 0 .. (k - 1) :
             PairBit(j) /\ \A i \in 0 .. (j - 1) : ~PairBit(i)
      ELSE Discarded(bs, 2 * k)

\* Iterator::next: `while !self.new_bit() { self.new_bit(); } Some(self.new_bit())`;
\* `advances` counts the calls of new_bit
next(bs) ==
  Let(Discarded(bs, 1),
      LAMBDA d : Let(Warm(bs, 2 * d + 2),
                     LAMBDA g : [g |-> g, out |-> g[Len(g)], advances |-> 2 * d + 2]))

SetBit(byte, k) == IF (byte \div Pow2(k)) % 2 = 1 THEN byte ELSE byte + Pow2(k)

\* The k-th bit put at position k, least significant bit first
PutBit_lsb(view, k, bit) ==
  IF bit THEN [view EXCEPT ![k \div 8] = SetBit(@, k % 8)] ELSE view

\* `view[i / 8] |= if bit { 1 << (i % 8) } else { 0 }` with i = NUM_BITS - 1 - k
PutBit(view, k, bit) ==
  IF bit THEN [view EXCEPT ![(NUM_BITS - 1 - k) \div 8] = SetBit(@, (NUM_BITS - 1 - k) % 8)]
  ELSE view

\* `for (i, bit) in self.take(NUM_BITS).enumerate()`: the n iterations from
\* bit number i on, the first half of them and then the rest
RECURSIVE FillBytes(_, _, _, _)
FillBytes(bs, view, i, n) ==
  IF n = 0 THEN [g |-> bs, out |-> view]
  ELSE IF n = 1
       THEN Let(next(bs), LAMBDA nb : [g |-> nb.g, out |-> PutBit(view, i, nb.out)])
       ELSE Let(FillBytes(bs, view, i, n \div 2),
                LAMBDA half : FillBytes(half.g, half.out, i + (n \div 2),
                                        n - (n \div 2)))

\* 256^e modulo m, by squaring
RECURSIVE Pow256Mod(_, _)
Pow256Mod(e, m) ==
  IF e = 0 THEN 1 % m
  ELSE Let(Pow256Mod(e \div 2, m),
           LAMBDA h : IF e % 2 = 0 THEN (h * h) % m ELSE (((h * h) % m) * 256) % m)

\* Little-endian integer of bytes lo .. hi-1 of a byte view (weights 256^0 ..),
\* reduced modulo m; the range is summed as two halves
RECURSIVE LeMod(_, _, _, _)
LeMod(view, lo, hi, m) ==
  IF lo = hi THEN 0
  ELSE IF hi = lo + 1 THEN view[lo] % m
  ELSE (LeMod(view, lo, (lo + hi) \div 2, m)
        + Pow256Mod(((lo + hi) \div 2) - lo, m) * LeMod(view, (lo + hi) \div 2, hi, m)) % m

\* Little-endian integer of the n_bytes bytes of a Repr
RECURSIVE LeInt(_, _)
LeInt(view, k) ==
  IF k = n_bytes THEN 0 ELSE view[k] + 256 * LeInt(view, k + 1)

\* PrimeField::from_repr_vartime: None (<< >>) unless the integer is canonical
from_repr_vartime(bytes) ==
  Let(LeInt(bytes, 0), LAMBDA v : IF v < MODULUS THEN << v >> ELSE << >>)

\* PrimeField::to_repr: the canonical little-endian bytes of an element
to_repr(f) == [k \in 0 .. (n_bytes - 1) |-> (f \div Pow2(8 * k)) % 256]

\* FromUniformBytes<64>::from_uniform_bytes
from_uniform_bytes(bytes) == LeMod(bytes, 0, 64, MODULUS)

\* Grain::next_field_element: rejection sampling
RECURSIVE next_field_element(_)
next_field_element(bs) ==
  Let(FillBytes(bs, [k \in 0 .. (n_bytes - 1) |-> 0], 0, NUM_BITS),
      LAMBDA filled :
        Let(from_repr_vartime(filled.out),
            LAMBDA f : IF f # << >> THEN [g |-> filled.g, out |-> f[1]]
                       ELSE next_field_element(filled.g)))

\* Grain::next_field_element_without_rejection
next_field_element_without_rejection(bs) ==
  Let(FillBytes(bs, [k \in 0 .. 63 |-> 0], 0, NUM_BITS),
      LAMBDA filled : [g |-> filled.g, out |-> from_uniform_bytes(filled.out)])

\* One sample of either kind
Sample(bs, rejection) ==
  IF rejection THEN next_field_element(bs)
  ELSE next_field_element_without_rejection(bs)

\* `for c in arr.iter_mut() { *c = sample() }`: the n lanes from lane k on of
\* an array, the first half of them and then the rest
RECURSIVE FillArray(_, _, _, _, _)
FillArray(bs, arr, k, n, rejection) ==
  IF n = 0 THEN [g |-> bs, out |-> arr]
  ELSE IF n = 1
       THEN Let(Sample(bs, rejection),
                LAMBDA e : [g |-> e.g, out |-> [arr EXCEPT ![k] = e.out]])
       ELSE Let(FillArray(bs, arr, k, n \div 2, rejection),
                LAMBDA half : FillArray(half.g, half.out, k + (n \div 2),
                                        n - (n \div 2), rejection))

\* `(0..number_of_rounds).map(|_| round_constants).collect()`: n rounds
\* appended to acc, the first half of them and then the rest
RECURSIVE RoundConstants(_, _, _, _)
RoundConstants(bs, t, acc, n) ==
  IF n = 0 THEN [g |-> bs, out |-> acc]
  ELSE IF n = 1
       THEN Let(FillArray(bs, ZeroVec(t), 0, t, TRUE),
                LAMBDA rc : [g |-> rc.g, out |-> Append(acc, rc.out)])
       ELSE Let(RoundConstants(bs, t, acc, n \div 2),
                LAMBDA half : RoundConstants(half.g, t, half.out, n - (n \div 2)))

\* MDSMatrix::cauchy; a zero sum fails the assertion / the unwrap
cauchy(xs, ys) ==
  IF \E i \in DOMAIN xs, j \in DOMAIN ys : FAdd(xs[i], ys[j]) = 0
  THEN [panic |-> TRUE, m |-> zero_matrix(Dim(xs))]
  ELSE [panic |-> FALSE,
        m |-> [i \in DOMAIN xs |-> [j \in DOMAIN ys |-> FInvert(FAdd(xs[i], ys[j]))[1]]]]

\* The tail of Grain::generate: xs, ys and the Cauchy matrix
GenerateMds(cs, t) ==
  Let(FillArray(cs.g, ZeroVec(t), 0, t, FALSE),
      LAMBDA xs :
        Let(FillArray(xs.g, ZeroVec(t), 0, t, FALSE),
            LAMBDA ys :
              Let(cauchy(xs.out, ys.out),
                  LAMBDA c : [panic |-> c.panic, constants |-> cs.out, mds |-> c.m])))

\* Grain::generate without `assert_eq!(r_f % 2, 0)`
generate_any_r_f(debug_assertions, t, rate, r_f, r_p) ==
  IF debug_assertions /\ ~(t > 1 /\ t = rate + 1)
  THEN [panic |-> TRUE, constants |-> << >>, mds |-> zero_matrix(t)]
  ELSE Let(Warm(InitialBits(t, r_f, r_p), WARMUP),
           LAMBDA warm : Let(RoundConstants(warm, t, << >>, r_p + r_f),
                             LAMBDA cs : GenerateMds(cs, t)))

\* Grain::generate for geometry (t, rate): raw round constants and the MDS.
\* `debug_assert!(T > 1 && T == RATE + 1)` is compiled only into builds with
\* debug assertions; `assert_eq!(r_f % 2, 0)` into every build.
generate(debug_assertions, t, rate, r_f, r_p) ==
  IF (debug_assertions /\ ~(t > 1 /\ t = rate + 1)) \/ r_f % 2 # 0
  THEN [panic |-> TRUE, constants |-> << >>, mds |-> zero_matrix(t)]
  ELSE Let(Warm(InitialBits(t, r_f, r_p), WARMUP),
           LAMBDA warm : Let(RoundConstants(warm, t, << >>, r_p + r_f),
                             LAMBDA cs : GenerateMds(cs, t)))

(***************************************************************************)
(* spec.rs: State                                                          *)
(***************************************************************************)
\* State::default: lane 0 is F::from_u128(1 << 64)
State_default(t) == [i \in 0 .. (t - 1) |-> IF i = 0 THEN FPow2(64) ELSE 0]

\* `tmp = e * e; e *= tmp; e *= tmp`
Pow5(e) == Let(FMul(e, e), LAMBDA tmp : FMul(FMul(e, tmp), tmp))

sbox_full(st) == [i \in DOMAIN st |-> Pow5(st[i])]

sbox_part(st) == [st EXCEPT ![0] = Pow5(st[0])]

add_constants(st, cs) == [i \in DOMAIN st |-> FAdd(st[i], cs[i])]

add_constant(st, c) == [st EXCEPT ![0] = FAdd(st[0], c)]

\* State::result: the second element
result(st) == st[1]

(***************************************************************************)
(* spec.rs: MDSMatrix, SparseMDSMatrix                                     *)
(***************************************************************************)
\* MDSMatrix::apply
mds_apply(m, st) == mul_vector(m, st)

\* sparse apply that reads the lane 0 it has just written
sparse_apply_fresh(sp, st) ==
  Let(Dot(sp.row, st),
      LAMBDA s0 : [i \in DOMAIN st |->
                     IF i = 0 THEN s0
                     ELSE IF i - 1 \in DOMAIN sp.col_hat
                          THEN FAdd(FMul(sp.col_hat[i - 1], s0), st[i])
                          ELSE st[i]])

\* SparseMDSMatrix::apply: every right-hand side reads `words`, the copy of
\* the state taken on entry
sparse_apply(sp, st) ==
  Let(st,
      LAMBDA words : [i \in DOMAIN st |->
                        IF i = 0 THEN Dot(sp.row, words)
                        ELSE IF i - 1 \in DOMAIN sp.col_hat
                             THEN FAdd(FMul(sp.col_hat[i - 1], words[0]), words[i])
                             ELSE st[i]])

\* From<MDSMatrix> for SparseMDSMatrix: the assertion on the identity block
SparseFormOk(m) ==
  \A i \in DOMAIN m, j \in DOMAIN m :
     (i >= 1 /\ j >= 1) => m[i][j] = (IF i # j THEN 0 ELSE 1)

\* From<MDSMatrix> for SparseMDSMatrix
sparse_from(m, rate) ==
  [panic |-> ~SparseFormOk(m),
   sp |-> [row |-> m[0],
           col_hat |-> [i \in 0 .. (rate - 1) |->
                          IF i + 1 \in DOMAIN m THEN m[i + 1][0] ELSE 0]]]

\* closure `prime` of factorise: [[1 | 0], [0 | hat]]
prime(t, hat) ==
  [i \in 0 .. (t - 1) |-> [j \in 0 .. (t - 1) |->
     IF i >= 1 /\ j >= 1 /\ (i - 1) \in DOMAIN hat /\ (j - 1) \in DOMAIN hat
     THEN hat[i - 1][j - 1] ELSE IF i = j THEN 1 ELSE 0]]

\* closure `prime_prime` of factorise: [[m_0_0 | m_0_i], [w_hat | identity]]
prime_prime(m, w_hat) ==
  [i \in DOMAIN m |-> [j \in DOMAIN m |->
     IF i = 0 THEN m[0][j]
     ELSE IF j = 0 /\ (i - 1) \in DOMAIN w_hat THEN w_hat[i - 1]
     ELSE IF i = j THEN 1 ELSE 0]]

\* `prime_prime(w_hat).transpose().into()` with w_hat = m_hat_inverse * w
FactoriseSparse(m, rate, m_hat_inverse, w_vec) ==
  Let(mul_vector(m_hat_inverse, w_vec),
      LAMBDA w_hat : Let(prime_prime(m, w_hat),
                         LAMBDA pp : Let(transpose(pp),
                                         LAMBDA ppt : sparse_from(ppt, rate))))

\* The results of factorise, given m_hat and its inverse
FactoriseWith(m, rate, m_hat, m_hat_inverse) ==
  Let(w(m),
      LAMBDA w_vec :
        Let(FactoriseSparse(m, rate, m_hat_inverse.m, w_vec),
            LAMBDA pp : [panic |-> m_hat_inverse.panic \/ pp.panic,
                         prime |-> prime(Dim(m), m_hat),
                         sp |-> pp.sp]))

\* MDSMatrix::factorise: (M', sparse form of the transpose of M'')
factorise(m, rate) ==
  IF rate + 1 # Dim(m)
  THEN [panic |-> TRUE, prime |-> m, sp |-> sparse_from(m, rate).sp]
  ELSE Let(sub(m),
           LAMBDA m_hat : Let(invert(m_hat),
                              LAMBDA m_hat_inverse :
                                FactoriseWith(m, rate, m_hat, m_hat_inverse)))

(***************************************************************************)
(* spec.rs: Spec::new                                                      *)
(***************************************************************************)
\* A pass that leaves tmp[0] in the accumulator
PartialAcc_keep0(tmp, raw) == [l \in DOMAIN tmp |-> FAdd(tmp[l], raw[l])]

\* One pass of the loop over the partial constants: tmp = inverse_mds * acc,
\* tmp[0] = 0, acc = tmp + constants
PartialAcc(tmp, raw) ==
  Let([tmp EXCEPT ![0] = 0],
      LAMBDA tmp0 : [l \in DOMAIN tmp |-> FAdd(tmp0[l], raw[l])])

\* The loop over constants_partial.iter_mut().rev() zipped with the raw
\* constants C[h + i], for i down to 0; acc and the partial constants so far
RECURSIVE PartialLoop(_, _, _, _, _, _)
PartialLoop(inverse_mds, constants, r_f_half, acc, partial, i) ==
  IF i < 0 THEN [acc |-> acc, partial |-> partial]
  ELSE Let(mul_vector(inverse_mds, acc),
           LAMBDA tmp :
             Let(PartialAcc(tmp, constants[r_f_half + i + 1]),
                 LAMBDA acc2 :
                   Let([partial EXCEPT ![i + 1] = tmp[0]],
                       LAMBDA partial2 :
                         PartialLoop(inverse_mds, constants, r_f_half,
                                     acc2, partial2, i - 1))))

\* constants_start before the push: C[0], then inverse_mds * C[k]
ConstantsStart(inverse_mds, constants, r_f_half) ==
  [k \in 1 .. r_f_half |->
     IF k = 1 THEN constants[1] ELSE mul_vector(inverse_mds, constants[k])]

\* constants_end: inverse_mds * C[h + r_p + 1 + k]
ConstantsEnd(inverse_mds, constants, r_f_half, r_p) ==
  [k \in 1 .. (r_f_half - 1) |->
     mul_vector(inverse_mds, constants[r_f_half + r_p + 1 + k])]

\* The three parts of the optimized constants, given the inverse MDS
OptimizedWith(inverse_mds, constants, r_f_half, r_p) ==
  Let(PartialLoop(inverse_mds, constants, r_f_half,
                  constants[r_f_half + r_p + 1], [k \in 1 .. r_p |-> 0], r_p - 1),
      LAMBDA loop :
        [panic |-> FALSE,
         start |-> Append(ConstantsStart(inverse_mds, constants, r_f_half),
                          mul_vector(inverse_mds, loop.acc)),
         partial |-> loop.partial,
         end |-> ConstantsEnd(inverse_mds, constants, r_f_half, r_p)])

\* Spec::calculate_optimized_constants
calculate_optimized_constants(r_f, r_p, constants, mds) ==
  Let(invert(mds),
      LAMBDA inverse_mds :
        IF inverse_mds.panic \/ Len(constants) # r_f + r_p \/ r_f \div 2 = 0
        THEN [panic |-> TRUE, start |-> << >>, partial |-> << >>, end |-> << >>]
        ELSE OptimizedWith(inverse_mds.m, constants, r_f \div 2, r_p))

\* The closure of calculate_sparse_matrices run n more times: factorise acc,
\* collect M'', continue with acc = mds * M'
RECURSIVE SparseLoop(_, _, _, _, _)
SparseLoop(mds_t, rate, acc, collected, n) ==
  IF n = 0 THEN [panic |-> FALSE, acc |-> acc, sparse |-> collected]
  ELSE Let(factorise(acc, rate),
           LAMBDA f :
             IF f.panic THEN [panic |-> TRUE, acc |-> acc, sparse |-> collected]
             ELSE Let(mul(mds_t, f.prime),
                      LAMBDA acc2 :
                        Let(Append(collected, f.sp),
                            LAMBDA collected2 :
                              SparseLoop(mds_t, rate, acc2, collected2, n - 1))))

\* The collected matrices left in the order the closure produced them
Reverse_keep(seq) == seq

\* `.rev()` on the collected sparse matrices
Reverse(seq) == [k \in 1 .. Len(seq) |-> seq[Len(seq) + 1 - k]]

\* The results of calculate_sparse_matrices when the closure ran n times
SparseMatricesAfter(n, rate, mds) ==
  Let(transpose(mds),
      LAMBDA mds_t :
        Let(SparseLoop(mds_t, rate, mds_t, << >>, n),
            LAMBDA loop : [panic |-> loop.panic,
                           sparse_matrices |-> Reverse(loop.sparse),
                           pre_sparse_mds |-> transpose(loop.acc)]))

\* calculate_sparse_matrices whose closure runs once too often
calculate_sparse_matrices_extra(r_p, rate, mds) ==
  SparseMatricesAfter(r_p + 1, rate, mds)

\* Spec::calculate_sparse_matrices: the closure runs for 0..r_p
calculate_sparse_matrices(r_p, rate, mds) ==
  SparseMatricesAfter(r_p, rate, mds)

\* The Spec value of a construction that panicked
SpecPanic(r_f, mds) ==
  [panic |-> TRUE, r_f |-> r_f,
   constants |-> [start |-> << >>, partial |-> << >>, end |-> << >>],
   mds_matrices |-> [mds |-> mds, pre_sparse_mds |-> mds, sparse_matrices |-> << >>]]

\* The struct expression at the end of Spec::new
SpecOf(r_f, mds, constants, sparse) ==
  IF constants.panic \/ sparse.panic THEN SpecPanic(r_f, mds)
  ELSE [panic |-> FALSE, r_f |-> r_f,
        constants |-> [start |-> constants.start,
                       partial |-> constants.partial,
                       end |-> constants.end],
        mds_matrices |-> [mds |-> mds,
                          pre_sparse_mds |-> sparse.pre_sparse_mds,
                          sparse_matrices |-> sparse.sparse_matrices]]

\* Spec::new for the geometry (t, rate)
Spec_new(debug_assertions, t, rate, r_f, r_p) ==
  Let(generate(debug_assertions, t, rate, r_f, r_p),
      LAMBDA gen :
        IF gen.panic THEN SpecPanic(r_f, gen.mds)
        ELSE Let(calculate_optimized_constants(r_f, r_p, gen.constants, gen.mds),
                 LAMBDA constants :
                   Let(calculate_sparse_matrices(r_p, rate, gen.mds),
                       LAMBDA sparse : SpecOf(r_f, gen.mds, constants, sparse))))

\* SpecRef::new: the raw constants and the MDS, as generated
SpecRef_new(debug_assertions, t, rate, r_f, r_p) ==
  Let(generate(debug_assertions, t, rate, r_f, r_p),
      LAMBDA gen : [panic |-> gen.panic, r_f |-> r_f, r_p |-> r_p,
                    mds |-> gen.mds, constants |-> gen.constants])

(***************************************************************************)
(* permutation.rs                                                          *)
(***************************************************************************)
\* `state.sbox_full(); state.add_constants(c); m.apply(state)`
FullRound(m, st, c) ==
  Let(sbox_full(st),
      LAMBDA boxed : Let(add_constants(boxed, c),
                         LAMBDA added : mds_apply(m, added)))

\* A partial round that leaves the round constant out
PartialRound_no_constant(sparse_mds, st, c) ==
  Let(sbox_part(st), LAMBDA boxed : sparse_apply(sparse_mds, boxed))

\* `state.sbox_part(); state.add_constant(c); sparse_mds.apply(state)`
PartialRound(sparse_mds, st, c) ==
  Let(sbox_part(st),
      LAMBDA boxed : Let(add_constant(boxed, c),
                         LAMBDA added : sparse_apply(sparse_mds, added)))

\* `for c in start.iter().skip(1).take(r_f - 1)`, entries k .. of start
RECURSIVE FirstHalf(_, _, _, _)
FirstHalf(sp, st, k, last) ==
  IF k > last THEN st
  ELSE Let(FullRound(sp.mds_matrices.mds, st, sp.constants.start[k]),
           LAMBDA st2 : FirstHalf(sp, st2, k + 1, last))

\* zip of partial constants and sparse matrices, pairs k ..
RECURSIVE PartialRounds(_, _, _)
PartialRounds(sp, st, k) ==
  IF k > Len(sp.constants.partial) \/ k > Len(sp.mds_matrices.sparse_matrices)
  THEN st
  ELSE Let(PartialRound(sp.mds_matrices.sparse_matrices[k], st, sp.constants.partial[k]),
           LAMBDA st2 : PartialRounds(sp, st2, k + 1))

\* `for c in end.iter()`, entries k .. of end
RECURSIVE SecondHalf(_, _, _)
SecondHalf(sp, st, k) ==
  IF k > Len(sp.constants.end) THEN st
  ELSE Let(FullRound(sp.mds_matrices.mds, st, sp.constants.end[k]),
           LAMBDA st2 : SecondHalf(sp, st2, k + 1))

Min(a, b) == IF a < b THEN a ELSE b

\* A first loop that runs over every entry of start after the first
FirstLoopLast_all(sp) == Len(sp.constants.start)

\* `start.iter().skip(1).take(r_f - 1)`: the last entry (1-based) the first
\* loop of permute visits
FirstLoopLast(sp) == Min(Len(sp.constants.start), sp.r_f \div 2)

\* The first block of permute
PermuteFirst(sp, st) ==
  Let(add_constants(st, sp.constants.start[1]),
      LAMBDA s1 :
        Let(FirstHalf(sp, s1, 2, FirstLoopLast(sp)),
            LAMBDA s2 : FullRound(sp.mds_matrices.pre_sparse_mds, s2,
                                  sp.constants.start[Len(sp.constants.start)])))

\* The last block of permute
PermuteLast(sp, st) ==
  Let(SecondHalf(sp, st, 1),
      LAMBDA s5 : Let(sbox_full(s5),
                      LAMBDA boxed : mds_apply(sp.mds_matrices.mds, boxed)))

\* Spec::permute
permute(sp, st) ==
  Let(PermuteFirst(sp, st),
      LAMBDA s3 : Let(PartialRounds(sp, s3, 1),
                      LAMBDA s4 : PermuteLast(sp, s4)))

\* One round of SpecRef::permute: add constants, S-box, MDS
RefRound(ref, st, k, full) ==
  Let(add_constants(st, ref.constants[k]),
      LAMBDA added : Let(IF full THEN sbox_full(added) ELSE sbox_part(added),
                         LAMBDA boxed : mds_apply(ref.mds, boxed)))

\* The three loops of SpecRef::permute from round k (1-based) on: full for the
\* first r_f/2 rounds, partial for the next r_p, full for all that remain
RECURSIVE RefRounds(_, _, _)
RefRounds(ref, st, k) ==
  IF k > Len(ref.constants) THEN st
  ELSE Let(RefRound(ref, st, k,
                    k <= ref.r_f \div 2 \/ k > (ref.r_f \div 2) + ref.r_p),
           LAMBDA st2 : RefRounds(ref, st2, k + 1))

\* The rounds k .. last (1-based) of SpecRef::permute
RECURSIVE RefRoundsTo(_, _, _, _)
RefRoundsTo(ref, st, k, last) ==
  IF k > last \/ k > Len(ref.constants) THEN st
  ELSE Let(RefRound(ref, st, k,
                    k <= ref.r_f \div 2 \/ k > (ref.r_f \div 2) + ref.r_p),
           LAMBDA st2 : RefRoundsTo(ref, st2, k + 1, last))

\* SpecRef::permute
ref_permute(ref, st) == RefRounds(ref, st, 1)

(***************************************************************************)
(* poseidon.rs: the variable-length hasher                                 *)
(***************************************************************************)
\* absorption that zips the chunk with the lanes without `skip(1)`
absorb_from_lane0(st, chunk) ==
  [i \in DOMAIN st |->
     IF i + 1 <= Len(chunk) THEN FAdd(st[i], chunk[i + 1]) ELSE st[i]]

\* `for (input_element, state) in chunk.iter().zip(self.state.0.iter_mut().skip(1))
\*  { state.add_assign(input_element) }`
absorb(st, chunk) ==
  [i \in DOMAIN st |->
     IF i >= 1 /\ i <= Len(chunk) THEN FAdd(st[i], chunk[i]) ELSE st[i]]

\* The hasher after a full chunk: absorbed, permuted, absorption line flushed.
\* `absorptions` lists the state before and after every absorption of the
\* running call.
Absorbed(sp, h, added) ==
  [state |-> permute(sp, added),
   absorbing |-> << >>,
   absorptions |-> Append(h.absorptions, [before |-> h.state, after |-> added])]

\* loop body of update that leaves a full chunk in the absorption line
UpdateChunk_keep(sp, h, chunk) ==
  IF Len(chunk) < RATE THEN [h EXCEPT !.absorbing = chunk]
  ELSE Let(absorb(h.state, chunk),
           LAMBDA added : [Absorbed(sp, h, added) EXCEPT !.absorbing = chunk])

\* Body of `for chunk in input_elements.chunks(RATE)` in update
UpdateChunk(sp, h, chunk) ==
  IF Len(chunk) < RATE THEN [h EXCEPT !.absorbing = chunk]
  ELSE Let(absorb(h.state, chunk), LAMBDA added : Absorbed(sp, h, added))

\* A loop that appends a short last chunk to the absorption line instead of
\* replacing the line by it
RECURSIVE UpdateLoop_extend(_, _, _, _)
UpdateLoop_extend(sp, h, input_elements, k) ==
  IF k > Len(input_elements) THEN h
  ELSE Let(SubSeq(input_elements, k, Min(k + RATE - 1, Len(input_elements))),
           LAMBDA chunk :
             IF Len(chunk) < RATE THEN [h EXCEPT !.absorbing = @ \o chunk]
             ELSE Let(absorb(h.state, chunk),
                      LAMBDA added :
                        Let(Absorbed(sp, h, added),
                            LAMBDA h2 : UpdateLoop_extend(sp, h2, input_elements,
                                                          k + RATE))))

\* `input_elements.chunks(RATE)` from element k (1-based) on
RECURSIVE UpdateLoop(_, _, _, _)
UpdateLoop(sp, h, input_elements, k) ==
  IF k > Len(input_elements) THEN h
  ELSE Let(SubSeq(input_elements, k, Min(k + RATE - 1, Len(input_elements))),
           LAMBDA chunk :
             Let(UpdateChunk(sp, h, chunk),
                 LAMBDA h2 : UpdateLoop(sp, h2, input_elements, k + RATE)))

\* update that does not start from the absorption line
update_forgetful(sp, h, elements) ==
  UpdateLoop(sp, [state |-> h.state, absorbing |-> h.absorbing, absorptions |-> << >>],
             elements, 1)

\* Poseidon::update on the hasher h = (state, absorbing)
update(sp, h, elements) ==
  Let(h.absorbing \o elements,
      LAMBDA input_elements :
        UpdateLoop(sp, [state |-> h.state, absorbing |-> h.absorbing,
                        absorptions |-> << >>],
                   input_elements, 1))

\* A squeeze that leaves the hasher as Poseidon::new made it
Squeezed_reset(sp, h, last_chunk) ==
  Let(absorb(h.state, last_chunk),
      LAMBDA added :
        Let(permute(sp, added),
            LAMBDA permuted :
              [panic |-> ~(Len(h.absorbing) < RATE),
               state |-> State_default(T),
               absorbing |-> << >>,
               out |-> result(permuted),
               absorptions |-> << [before |-> h.state, after |-> added] >>]))

\* The hasher and the value returned by squeeze for a given last chunk; the
\* debug assertion on the length of the absorption line fails as a panic
Squeezed(sp, h, last_chunk) ==
  Let(absorb(h.state, last_chunk),
      LAMBDA added :
        Let(permute(sp, added),
            LAMBDA permuted :
              [panic |-> ~(Len(h.absorbing) < RATE),
               state |-> permuted,
               absorbing |-> << >>,
               out |-> result(permuted),
               absorptions |-> << [before |-> h.state, after |-> added] >>]))

\* squeeze without the finishing sign
squeeze_unpadded(sp, h) == Squeezed(sp, h, h.absorbing)

\* Poseidon::squeeze: `last_chunk.push(F::ONE)`, absorb, permute, flush
squeeze(sp, h) == Squeezed(sp, h, Append(h.absorbing, 1))

\* The reference of the padding tests: `inputs.push(one)`, zeros up to a
\* multiple of RATE
PaddedInputs(inputs) ==
  Let(Append(inputs, 1),
      LAMBDA padded :
        IF Len(padded) % RATE # 0
        THEN padded \o [k \in 1 .. (RATE - (Len(padded) % RATE)) |-> 0]
        ELSE padded)

\* `round_inputs = [zero] ++ chunk; state.add_constants(round_inputs);
\*  spec.permute(&mut state)` for the chunks from element k (1-based) on
RECURSIVE ReferenceLoop(_, _, _, _)
ReferenceLoop(sp, st, inputs, k) ==
  IF k > Len(inputs) THEN st
  ELSE Let([i \in DOMAIN st |-> IF i = 0 THEN 0 ELSE inputs[k + i - 1]],
           LAMBDA round_inputs :
             Let(add_constants(st, round_inputs),
                 LAMBDA added :
                   Let(permute(sp, added),
                       LAMBDA st2 : ReferenceLoop(sp, st2, inputs, k + RATE))))

\* result_1 of test_padding
PaddingReference(sp, inputs) ==
  Let(PaddedInputs(inputs),
      LAMBDA padded : result(ReferenceLoop(sp, State_default(T), padded, 1)))

(***************************************************************************)
(* poseidon/constant.rs and merkle.rs: the stateless hashers               *)
(***************************************************************************)
\* State::init_constant_length_mode: lane 0 is 2^64 + (LEN << 64)
init_constant_length_mode(t, len) ==
  [i \in 0 .. (t - 1) |-> IF i = 0 THEN FMul(FPow2(64), (1 + len) % MODULUS) ELSE 0]

\* State::new::<MerkleMod>(): lane 0 is the Merkle tag
init_merkle_mode(t, tag) == [i \in 0 .. (t - 1) |-> IF i = 0 THEN tag ELSE 0]

\* The values a Merkle tag can have: non-zero and not the default tag
MerkleTags == F \ {0, FPow2(64)}

\* `for chunk in elements.chunks(RATE)` of the constant-length hash, from
\* element k (1-based) on: absorb the chunk, permute
RECURSIVE ConstantLoop(_, _, _, _)
ConstantLoop(sp, h, elements, k) ==
  IF k > Len(elements) THEN h
  ELSE Let(SubSeq(elements, k, Min(k + RATE - 1, Len(elements))),
           LAMBDA chunk :
             Let(absorb(h.state, chunk),
                 LAMBDA added :
                   Let(Absorbed(sp, h, added),
                       LAMBDA h2 : ConstantLoop(sp, h2, elements, k + RATE))))

\* constant-length hash that walks `chunks_exact(RATE)` and so drops a short
\* final chunk
constant_hash_exact(sp, elements) ==
  Let(ConstantLoop(sp, [state |-> init_constant_length_mode(T, Len(elements)),
                        absorbing |-> << >>, absorptions |-> << >>],
                   SubSeq(elements, 1, Len(elements) - (Len(elements) % RATE)), 1),
      LAMBDA h : [state |-> h.state, out |-> result(h.state),
                  absorptions |-> h.absorptions])

\* constant::Poseidon::hash with LEN = Len(elements)
constant_hash(sp, elements) ==
  Let(ConstantLoop(sp, [state |-> init_constant_length_mode(T, Len(elements)),
                        absorbing |-> << >>, absorptions |-> << >>],
                   elements, 1),
      LAMBDA h : [state |-> h.state, out |-> result(h.state),
                  absorptions |-> h.absorptions])

\* `state.0.iter_mut().skip(1).zip(elements.iter()).for_each(|(s, e)| *s = *e)`
merkle_absorb(st, elements) ==
  [i \in DOMAIN st |-> IF i >= 1 /\ i <= Len(elements) THEN elements[i] ELSE st[i]]

\* Merkle::hash
merkle_hash(sp, tag, elements) ==
  Let(init_merkle_mode(T, tag),
      LAMBDA st :
        Let(merkle_absorb(st, elements),
            LAMBDA added :
              Let(permute(sp, added),
                  LAMBDA permuted :
                    [state |-> permuted, out |-> result(permuted),
                     absorptions |-> << [before |-> st, after |-> added] >>])))

(***************************************************************************)
(* The curve of the transcript: y^2 = x^3 + CURVE_B over the base field     *)
(***************************************************************************)
BASE_MODULUS == 31

CURVE_B == 3

Base == 0 .. (BASE_MODULUS - 1)

BASE_NUM_BITS == BitLen(BASE_MODULUS)

\* Length of the Repr of a base field element and of a compressed point
base_n_bytes == (BASE_NUM_BITS + 7) \div 8

\* The point at infinity
Identity == [inf |-> TRUE, x |-> 0, y |-> 0]

is_identity(point) == point.inf

is_on_curve(point) ==
  \/ point.inf
  \/ (point.y * point.y) % BASE_MODULUS
       = (point.x * point.x * point.x + CURVE_B) % BASE_MODULUS

\* The values of the curve's affine type
Curve ==
  {Identity} \cup { pt \in [inf : {FALSE}, x : Base, y : Base] : is_on_curve(pt) }

\* Canonical little-endian bytes of a base field element
base_to_repr(fe) == [k \in 0 .. (base_n_bytes - 1) |-> (fe \div Pow2(8 * k)) % 256]

\* big_uint::from_bytes_le of bytes k .. n-1
RECURSIVE from_bytes_le(_, _, _)
from_bytes_le(bytes, k, n) ==
  IF k = n THEN 0 ELSE bytes[k] + 256 * from_bytes_le(bytes, k + 1, n)

\* Base::from_bytes: None (<< >>) unless canonical
base_from_repr(bytes) ==
  Let(from_bytes_le(bytes, 0, base_n_bytes),
      LAMBDA v : IF v < BASE_MODULUS THEN << v >> ELSE << >>)

\* Base::sqrt: some square root, None without one
base_sqrt(a) ==
  IF \E y \in Base : (y * y) % BASE_MODULUS = a
  THEN << CHOOSE y \in Base : (y * y) % BASE_MODULUS = a >>
  ELSE << >>

\* CurveAffine::to_bytes: zeros for the identity, else the bytes of x with the
\* parity of y in the top bit of the last byte
to_bytes(point) ==
  IF point.inf THEN [k \in 0 .. (base_n_bytes - 1) |-> 0]
  ELSE [base_to_repr(point.x) EXCEPT
          ![base_n_bytes - 1] = @ + 128 * (base_to_repr(point.y)[0] % 2)]

\* The point with abscissa x and the given parity of y, if any
Decompress(x, ysign) ==
  Let(base_sqrt((x * x * x + CURVE_B) % BASE_MODULUS),
      LAMBDA root :
        IF root = << >> THEN << >>
        ELSE << [inf |-> FALSE, x |-> x,
                 y |-> IF base_to_repr(root[1])[0] % 2 = ysign THEN root[1]
                       ELSE (BASE_MODULUS - root[1]) % BASE_MODULUS] >>)

\* CurveAffine::from_bytes: None (<< >>) for a non-canonical x or an x off the
\* curve; the identity for x = 0 without the sign bit
from_bytes(bytes) ==
  Let(base_from_repr([bytes EXCEPT ![base_n_bytes - 1] = @ % 128]),
      LAMBDA x :
        IF x = << >> THEN << >>
        ELSE IF x[1] = 0 /\ bytes[base_n_bytes - 1] \div 128 = 0 THEN << Identity >>
        ELSE Decompress(x[1], bytes[base_n_bytes - 1] \div 128))

(***************************************************************************)
(* lib.rs                                                                  *)
(***************************************************************************)
\* fe_to_big: `fe.write(&mut bytes); big_uint::from_bytes_le(&bytes)`
fe_to_big(fe) == from_bytes_le(base_to_repr(fe), 0, base_n_bytes)

\* big_to_fe: reduce, little-endian bytes, F::read
big_to_fe(e) == from_repr_vartime(to_repr(e % MODULUS))[1]

\* decompose_big: `limb = mask & e; e = e >> bit_len; big_to_fe(limb)`
decompose_big(e, number_of_limbs, bit_len) ==
  [k \in 1 .. number_of_limbs |->
     big_to_fe((e \div Pow2(bit_len * (k - 1))) % Pow2(bit_len))]

decompose(e, number_of_limbs, bit_len) ==
  decompose_big(fe_to_big(e), number_of_limbs, bit_len)

native(e) == big_to_fe(fe_to_big(e) % MODULUS)

\* sign: `(bytes[0] & 1) == 0`
sign(fe) == base_to_repr(fe)[0] % 2 = 0

(***************************************************************************)
(* transcript.rs                                                           *)
(***************************************************************************)
NUMBER_OF_LIMBS == 2

BITLEN == 3

\* PointRepresentation::xy: an error for the point at infinity
xy(point) ==
  IF point.inf THEN [status |-> "err", x |-> 0, y |-> 0]
  ELSE [status |-> "ok", x |-> point.x, y |-> point.y]

\* LimbRepresentation::encode: the two assertions, then the limbs of x and
\* one element for the sign of y
encode(point) ==
  IF ~is_on_curve(point) \/ is_identity(point) THEN [status |-> "panic", out |-> << >>]
  ELSE Let(xy(point),
           LAMBDA c :
             IF c.status # "ok" THEN [status |-> "err", out |-> << >>]
             ELSE [status |-> "ok",
                   out |-> Append(decompose(c.x, NUMBER_OF_LIMBS, BITLEN),
                                  IF sign(c.y) THEN 1 ELSE 0)])

\* PrimeField::from_repr of the scalar field
from_repr(bytes) == from_repr_vartime(bytes)

\* The fields of a hasher out of the result of a call
HasherOf(h) == [state |-> h.state, absorbing |-> h.absorbing]

\* A byte array as the bytes written to or read from a stream
BytesOf(view, n) == [k \in 1 .. n |-> view[k - 1]]

\* The byte array filled by read_exact from the head of a stream
ViewOf(stream, n) == [k \in 0 .. (n - 1) |-> stream[k + 1]]

\* squeeze_challenge: `self.state.update(&[]); Challenge::new(&self.state.squeeze())`.
\* `input` is everything the operation gave to update.
squeeze_challenge(sp, h) ==
  Let(update(sp, h, << >>),
      LAMBDA tagged :
        Let(squeeze(sp, HasherOf(tagged)),
            LAMBDA s : [status |-> IF s.panic THEN "panic" ELSE "ok",
                        state |-> HasherOf(s),
                        value |-> s.out,
                        input |-> << >>]))

\* common_point: `self.state.update(&[]); self.state.update(&Z::encode(point)?[..])`
common_point(sp, h, point) ==
  Let(update(sp, h, << >>),
      LAMBDA tagged :
        Let(encode(point),
            LAMBDA e :
              IF e.status # "ok"
              THEN [status |-> e.status, state |-> HasherOf(tagged), input |-> << >>]
              ELSE Let(update(sp, HasherOf(tagged), e.out),
                       LAMBDA h2 : [status |-> "ok", state |-> HasherOf(h2),
                                    input |-> << >> \o e.out])))

\* common_scalar: `self.state.update(&[]); self.state.update(&[scalar])`
common_scalar(sp, h, scalar) ==
  Let(update(sp, h, << >>),
      LAMBDA tagged :
        Let(update(sp, HasherOf(tagged), << scalar >>),
            LAMBDA h2 : [status |-> "ok", state |-> HasherOf(h2),
                         input |-> << >> \o << scalar >>]))

\* self.writer.write_all(buf) on the underlying stream W: a Vec<u8> (no room
\* recorded) takes every byte; a stream with room for `room[1]` more bytes
\* takes what fits and fails when a part of buf is left over
write_all(wr, buf) ==
  IF wr.room = << >>
  THEN [status |-> "ok", writer |-> wr.writer \o buf, room |-> wr.room]
  ELSE IF Len(buf) <= wr.room[1]
       THEN [status |-> "ok", writer |-> wr.writer \o buf,
             room |-> << wr.room[1] - Len(buf) >>]
       ELSE [status |-> "write_err",
             writer |-> wr.writer \o SubSeq(buf, 1, wr.room[1]),
             room |-> << 0 >>]

\* The transcript after `common_*` returned c and, if it returned Ok, the
\* bytes were given to the writer
Written(wr, c, buf) ==
  IF c.status # "ok"
  THEN [status |-> c.status, input |-> c.input,
        transcript |-> [wr EXCEPT !.state = c.state]]
  ELSE Let(write_all(wr, buf),
           LAMBDA io :
             [status |-> io.status, input |-> c.input,
              transcript |-> [state |-> c.state, writer |-> io.writer,
                              room |-> io.room]])

\* PoseidonWrite::write_point: common_point, then the compressed bytes
write_point(sp, wr, point) ==
  Let(common_point(sp, wr.state, point),
      LAMBDA c : Written(wr, c, BytesOf(to_bytes(point), base_n_bytes)))

\* write_scalar that writes the bytes without absorbing the scalar
write_scalar_unabsorbed(sp, wr, scalar) ==
  Written(wr, [status |-> "ok", state |-> wr.state, input |-> << >>],
          BytesOf(to_repr(scalar), n_bytes))

\* PoseidonWrite::write_scalar: common_scalar, then the canonical bytes
write_scalar(sp, wr, scalar) ==
  Let(common_scalar(sp, wr.state, scalar),
      LAMBDA c : Written(wr, c, BytesOf(to_repr(scalar), n_bytes)))

\* The result of a read that failed before anything was absorbed
ReadError(rd, rest) ==
  [status |-> "err", input |-> << >>, value |-> << >>,
   transcript |-> [state |-> rd.state, reader |-> rest]]

\* The tail of read_point once the point is decoded
ReadPointDecoded(sp, rd, point, rest) ==
  Let(common_point(sp, rd.state, point),
      LAMBDA c : [status |-> c.status, input |-> c.input, value |-> point,
                  transcript |-> [state |-> c.state, reader |-> rest]])

\* PoseidonRead::read_point: read_exact, from_bytes, common_point
read_point(sp, rd) ==
  IF Len(rd.reader) < base_n_bytes THEN ReadError(rd, << >>)
  ELSE Let(from_bytes(ViewOf(rd.reader, base_n_bytes)),
           LAMBDA point :
             Let(SubSeq(rd.reader, base_n_bytes + 1, Len(rd.reader)),
                 LAMBDA rest :
                   IF point = << >> THEN ReadError(rd, rest)
                   ELSE ReadPointDecoded(sp, rd, point[1], rest)))

\* The tail of read_scalar once the scalar is decoded
ReadScalarDecoded(sp, rd, scalar, rest) ==
  Let(common_scalar(sp, rd.state, scalar),
      LAMBDA c : [status |-> c.status, input |-> c.input, value |-> scalar,
                  transcript |-> [state |-> c.state, reader |-> rest]])

\* read_scalar that absorbs the bytes it read before looking at them
read_scalar_eager(sp, rd) ==
  IF Len(rd.reader) < n_bytes THEN ReadError(rd, << >>)
  ELSE Let(ReadScalarDecoded(sp, rd, LeMod(ViewOf(rd.reader, n_bytes), 0, n_bytes, MODULUS),
                             SubSeq(rd.reader, n_bytes + 1, Len(rd.reader))),
           LAMBDA done :
             IF from_repr(ViewOf(rd.reader, n_bytes)) = << >>
             THEN [done EXCEPT !.status = "err", !.value = << >>]
             ELSE done)

\* PoseidonRead::read_scalar: read_exact, from_repr, common_scalar
read_scalar(sp, rd) ==
  IF Len(rd.reader) < n_bytes THEN ReadError(rd, << >>)
  ELSE Let(from_repr(ViewOf(rd.reader, n_bytes)),
           LAMBDA scalar :
             Let(SubSeq(rd.reader, n_bytes + 1, Len(rd.reader)),
                 LAMBDA rest :
                   IF scalar = << >> THEN ReadError(rd, rest)
                   ELSE ReadScalarDecoded(sp, rd, scalar[1], rest)))

(***************************************************************************)
(* State of the model                                                      *)
(***************************************************************************)
VARIABLES
  pc,              \* position of the running test / last call on the object
  kind,            \* which object was built
  params,          \* the arguments (r_f, r_p) given to the constructor
  spec,            \* Spec<F, T, RATE> (field `spec` of the hashers)
  spec_ref,        \* SpecRef<F, T, RATE> of the cross test
  state,           \* State<F, T> (field `state` of Poseidon)
  state_expected,  \* state_expected of cross_test
  absorbing,       \* field `absorbing` of Poseidon
  input,           \* every element given to update since `base`
  base,            \* the hasher (state, absorbing) when `input` was empty
  calls,           \* number of update and squeeze calls and of elements so far
  ret,             \* value returned by the last call, if any
  absorptions,     \* state before and after each absorption of the last call
  writer,          \* PoseidonWrite: its hasher `state` and the bytes in `writer`
  reader,          \* PoseidonRead: its hasher `state` and the bytes left in `reader`
  script,          \* the operations the writer completed, with their values
  replayed,        \* how many operations of `script` the reader has run
  honest,          \* whether `reader` was given the bytes of finalize()
  grain,           \* Grain: its bit_sequence, and what its calls of next() did
  matrix,          \* a Matrix and the results of the operations run on it
  round,           \* partial rounds run so far by a permutation run round by round
  trace            \* the statements of permute run so far, in order

hasher_vars == << absorbing, input, base, calls, ret, absorptions >>

transcript_vars == << writer, reader, script, replayed, honest >>

other_vars == << grain, matrix, round, trace >>

vars == << pc, kind, params, spec, spec_ref, state, state_expected,
           absorbing, input, base, calls, ret, absorptions,
           writer, reader, script, replayed, honest, grain, matrix, round, trace >>

\* Largest r_f and r_p given to a constructor
MaxRF == 4

MaxRP == 3

\* Largest lane value of an input state of the cross test
MaxWord == 4

\* Most elements given to one hasher in all, and most update and squeeze calls
MaxInput == 4

MaxUpdates == 3

MaxSqueezes == 2

\* The field elements given to the hashers
Elements == {0, 1}

\* Largest T and RATE a constructor is instantiated with
MaxT == 3

\* Most bits taken from a Grain instance
MaxBits == 10

\* Most operations run on a transcript writer
MaxOps == 3

\* Most bytes the bounded stream under a transcript writer accepts
MaxRoom == 2

\* The points and scalars given to a transcript writer
PointSamples ==
  {Identity, [inf |-> FALSE, x |-> 1, y |-> 2], [inf |-> FALSE, x |-> 24, y |-> 30]}

ScalarSamples == {1, MODULUS - 1}

\* The bytes a forged proof can hold in place of a written byte
ByteSamples == {0, 2, 23, 31, 129}

NoSpec == [panic |-> TRUE, r_f |-> 0]

NoState == << >>

NoCalls == [update |-> 0, squeeze |-> 0, elements |-> 0]

\* The fields `state` and `absorbing` of a Poseidon hasher
Hasher == [state |-> state, absorbing |-> absorbing]

\* Poseidon::new: State::default() and Vec::new()
NewHasher == [state |-> State_default(T), absorbing |-> << >>]

SeqsUpTo(S, n) == UNION { [1 .. k -> S] : k \in 0 .. n }

\* PoseidonWrite::init(vec![], r_f, r_p)
NewWriter == [state |-> NewHasher, writer |-> << >>, room |-> << >>]

\* PoseidonRead::init(reader, r_f, r_p)
NewReader(stream) == [state |-> NewHasher, reader |-> stream]

\* `ret` before any operation of a transcript
NoResult == [op |-> "init", status |-> "ok", value |-> << >>, stream |-> << >>]

\* The proofs that differ from the written one: cut short, or one byte replaced
Forged(proof) ==
  ({ SubSeq(proof, 1, n) : n \in 0 .. (Len(proof) - 1) }
     \cup { [proof EXCEPT ![k] = b] : k \in 1 .. Len(proof), b \in ByteSamples })
  \ {proof}

\* The entries of the matrices given to the matrix operations
Entries == {0, 1, 2}

\* The sizes Matrix is instantiated with: 1, and the RATE and T of the sponge
Dims == {1, RATE, T}

\* No Grain instance and no matrix is part of the run
NoGrain == [bit_sequence |-> << >>, before |-> << >>, bits |-> 0, advances |-> 0,
            last |-> 0, out |-> FALSE]

NoMatrix == [op |-> "none"]

\* No transcript is part of the run
TranscriptUnused ==
  /\ writer = NewWriter
  /\ reader = NewReader(<< >>)
  /\ script = << >>
  /\ replayed = 0
  /\ honest = TRUE

\* No hasher is part of the run
HasherUnused ==
  /\ absorbing = << >>
  /\ input = << >>
  /\ base = NewHasher
  /\ calls = NoCalls
  /\ ret = << >>
  /\ absorptions = << >>

(***************************************************************************)
(* permutation.rs, cross_test: the optimized against the reference         *)
(* permutation                                                             *)
(***************************************************************************)
CrossInit ==
  /\ pc = "new"
  /\ kind = "cross_test"
  /\ params \in [r_f : 0 .. MaxRF, r_p : 0 .. MaxRP]
  /\ spec = NoSpec
  /\ spec_ref = NoSpec
  /\ state = NoState
  /\ state_expected = NoState
  /\ HasherUnused
  /\ TranscriptUnused
  /\ grain = NoGrain
  /\ matrix = NoMatrix
  /\ round = 0
  /\ trace = << >>

\* SpecRef::new(R_F, R_P) and Spec::new(R_F, R_P)
CrossNew ==
  /\ pc = "new"
  /\ \E debug_assertions \in BOOLEAN :
       /\ spec' = Spec_new(debug_assertions, T, RATE, params.r_f, params.r_p)
       /\ spec_ref' = SpecRef_new(debug_assertions, T, RATE, params.r_f, params.r_p)
  /\ pc' = IF spec'.panic THEN "panic" ELSE "built"
  /\ UNCHANGED << other_vars, transcript_vars, kind, params, state, state_expected, hasher_vars >>

\* `let mut state = State(random); let mut state_expected = state.clone()`
CrossInput ==
  /\ pc = "built"
  /\ \E s \in [Lanes -> 0 .. MaxWord] :
        /\ state' = s
        /\ state_expected' = s
  /\ pc' = "input"
  /\ UNCHANGED << other_vars, transcript_vars, kind, params, spec, spec_ref, hasher_vars >>

\* `spec.permute(&mut state_expected)` with the SpecRef
CrossPermuteRef ==
  /\ pc = "input"
  /\ state_expected' = ref_permute(spec_ref, state_expected)
  /\ pc' = "ref_done"
  /\ UNCHANGED << other_vars, transcript_vars, kind, params, spec, spec_ref, state, hasher_vars >>

\* `spec.permute(&mut state)` with the Spec
CrossPermute ==
  /\ pc = "ref_done"
  /\ state' = permute(spec, state)
  /\ pc' = "done"
  /\ UNCHANGED << other_vars, transcript_vars, kind, params, spec, spec_ref, state_expected, hasher_vars >>

CrossNext == CrossNew \/ CrossInput \/ CrossPermuteRef \/ CrossPermute

SpecCross == CrossInit /\ [][CrossNext]_vars

(***************************************************************************)
(* The hashers in use                                                      *)
(***************************************************************************)
\* A hasher of either kind, built by its `new(r_f, r_p)` without a panic
SpongeInit ==
  /\ pc = "new"
  /\ kind \in {"variable", "constant", "merkle"}
  /\ params \in [r_f : 0 .. MaxRF, r_p : 0 .. MaxRP]
  /\ \E debug_assertions \in BOOLEAN :
       spec = Spec_new(debug_assertions, T, RATE, params.r_f, params.r_p)
  /\ ~spec.panic
  /\ spec_ref = NoSpec
  /\ state = IF kind = "variable" THEN State_default(T) ELSE NoState
  /\ state_expected = NoState
  /\ HasherUnused
  /\ TranscriptUnused
  /\ grain = NoGrain
  /\ matrix = NoMatrix
  /\ round = 0
  /\ trace = << >>

\* poseidon.update(elements)
Update ==
  /\ kind = "variable"
  /\ pc \in {"new", "updated", "squeezed"}
  /\ calls.update < MaxUpdates
  /\ \E elements \in SeqsUpTo(Elements, MaxInput - calls.elements) :
       \E h \in {update(spec, Hasher, elements)} :
          /\ state' = h.state
          /\ absorbing' = h.absorbing
          /\ absorptions' = h.absorptions
          /\ input' = IF pc = "squeezed" THEN elements ELSE input \o elements
          /\ base' = IF pc = "squeezed" THEN Hasher ELSE base
          /\ calls' = [calls EXCEPT !.update = @ + 1, !.elements = @ + Len(elements)]
  /\ ret' = << >>
  /\ pc' = "updated"
  /\ UNCHANGED << other_vars, transcript_vars, kind, params, spec, spec_ref, state_expected >>

\* poseidon.squeeze()
Squeeze ==
  /\ kind = "variable"
  /\ pc \in {"new", "updated", "squeezed"}
  /\ calls.squeeze < MaxSqueezes
  /\ \E h \in {squeeze(spec, Hasher)} :
       IF h.panic
       THEN /\ pc' = "panic"
            /\ UNCHANGED << other_vars, state, absorbing, absorptions, ret >>
       ELSE /\ pc' = "squeezed"
            /\ state' = h.state
            /\ absorbing' = h.absorbing
            /\ absorptions' = h.absorptions
            /\ ret' = << h.out >>
  /\ input' = IF pc = "squeezed" THEN << >> ELSE input
  /\ base' = IF pc = "squeezed" THEN Hasher ELSE base
  /\ calls' = [calls EXCEPT !.squeeze = @ + 1]
  /\ UNCHANGED << other_vars, transcript_vars, kind, params, spec, spec_ref, state_expected >>

\* constant::Poseidon::<F, LEN, T, RATE>::hash(elements)
ConstantHash ==
  /\ kind = "constant"
  /\ pc \in {"new", "hashed"}
  /\ \E elements \in SeqsUpTo(Elements, MaxInput) :
       \E h \in {constant_hash(spec, elements)} :
          /\ state' = h.state
          /\ ret' = << h.out >>
          /\ absorptions' = h.absorptions
          /\ input' = elements
  /\ pc' = "hashed"
  /\ UNCHANGED << other_vars, transcript_vars, kind, params, spec, spec_ref, state_expected, absorbing, base, calls >>

\* Merkle::hash(elements)
MerkleHash ==
  /\ kind = "merkle"
  /\ pc \in {"new", "hashed"}
  /\ \E elements \in [1 .. RATE -> Elements], tag \in MerkleTags :
       \E h \in {merkle_hash(spec, tag, elements)} :
          /\ state' = h.state
          /\ ret' = << h.out >>
          /\ absorptions' = h.absorptions
          /\ input' = elements
  /\ pc' = "hashed"
  /\ UNCHANGED << other_vars, transcript_vars, kind, params, spec, spec_ref, state_expected, absorbing, base, calls >>

SpongeNext == Update \/ Squeeze \/ ConstantHash \/ MerkleHash

SpecSponge == SpongeInit /\ [][SpongeNext]_vars

(***************************************************************************)
(* transcript.rs, test_transcript: a writer, then a reader over its proof   *)
(***************************************************************************)
\* init_writer!()
TranscriptInit ==
  /\ pc = "writing"
  /\ kind = "transcript"
  /\ params \in [r_f : 0 .. MaxRF, r_p : 0 .. MaxRP]
  /\ \E debug_assertions \in BOOLEAN :
       spec = Spec_new(debug_assertions, T, RATE, params.r_f, params.r_p)
  /\ ~spec.panic
  /\ spec_ref = NoSpec
  /\ state = NoState
  /\ state_expected = NoState
  /\ absorbing = << >>
  /\ input = << >>
  /\ base = NewHasher
  /\ calls = NoCalls
  /\ ret = NoResult
  /\ absorptions = << >>
  /\ TranscriptUnused
  /\ grain = NoGrain
  /\ matrix = NoMatrix
  /\ round = 0
  /\ trace = << >>

\* writer.write_point(point)
WritePoint ==
  /\ kind \in {"transcript", "bounded_writer"}
  /\ pc = "writing"
  /\ Len(script) < MaxOps
  /\ \E point \in PointSamples :
       \E r \in {write_point(spec, writer, point)} :
          /\ writer' = r.transcript
          /\ pc' = IF r.status = "panic" THEN "panic"
                   ELSE IF r.status = "write_err" THEN "failed"
                   ELSE "writing"
          /\ script' = IF r.status = "ok"
                       THEN Append(script, [op |-> "point", value |-> point])
                       ELSE script
          /\ ret' = [op |-> "write_point", status |-> r.status, value |-> point,
                     stream |-> writer.writer]
          /\ input' = r.input
  /\ base' = writer.state
  /\ UNCHANGED << other_vars, reader, replayed, honest, kind, params, spec, spec_ref, state,
                  state_expected, absorbing, calls, absorptions >>

\* writer.write_scalar(scalar)
WriteScalar ==
  /\ kind \in {"transcript", "bounded_writer"}
  /\ pc = "writing"
  /\ Len(script) < MaxOps
  /\ \E scalar \in ScalarSamples :
       \E r \in {write_scalar(spec, writer, scalar)} :
          /\ writer' = r.transcript
          /\ pc' = IF r.status = "panic" THEN "panic"
                   ELSE IF r.status = "write_err" THEN "failed"
                   ELSE "writing"
          /\ script' = IF r.status = "ok"
                       THEN Append(script, [op |-> "scalar", value |-> scalar])
                       ELSE script
          /\ ret' = [op |-> "write_scalar", status |-> r.status, value |-> scalar,
                     stream |-> writer.writer]
          /\ input' = r.input
  /\ base' = writer.state
  /\ UNCHANGED << other_vars, reader, replayed, honest, kind, params, spec, spec_ref, state,
                  state_expected, absorbing, calls, absorptions >>

\* writer.squeeze_challenge()
WriterSqueeze ==
  /\ kind \in {"transcript", "bounded_writer"}
  /\ pc = "writing"
  /\ Len(script) < MaxOps
  /\ \E r \in {squeeze_challenge(spec, writer.state)} :
       /\ writer' = [writer EXCEPT !.state = r.state]
       /\ pc' = IF r.status = "panic" THEN "panic" ELSE "writing"
       /\ script' = IF r.status = "ok"
                    THEN Append(script, [op |-> "challenge", value |-> r.value])
                    ELSE script
       /\ ret' = [op |-> "squeeze_challenge", status |-> r.status, value |-> r.value,
                  stream |-> writer.writer]
       /\ input' = r.input
  /\ base' = writer.state
  /\ UNCHANGED << other_vars, reader, replayed, honest, kind, params, spec, spec_ref, state,
                  state_expected, absorbing, calls, absorptions >>

\* `let proof = writer.finalize()`
Finalize ==
  /\ kind = "transcript"
  /\ pc = "writing"
  /\ pc' = "finalized"
  /\ UNCHANGED << other_vars, transcript_vars, hasher_vars, kind, params, spec, spec_ref, state,
                  state_expected >>

\* init_reader!(proof)
ReaderInit ==
  /\ kind = "transcript"
  /\ pc = "finalized"
  /\ reader' = NewReader(writer.writer)
  /\ honest' = TRUE
  /\ pc' = "reading"
  /\ UNCHANGED << other_vars, writer, script, replayed, hasher_vars, kind, params, spec, spec_ref,
                  state, state_expected >>

\* A reader built over bytes that are not the proof
ReaderInitForged ==
  /\ kind = "transcript"
  /\ pc = "finalized"
  /\ \E stream \in Forged(writer.writer) : reader' = NewReader(stream)
  /\ honest' = FALSE
  /\ pc' = "reading"
  /\ UNCHANGED << other_vars, writer, script, replayed, hasher_vars, kind, params, spec, spec_ref,
                  state, state_expected >>

\* reader.read_point() where the writer wrote a point
ReadPoint ==
  /\ kind = "transcript"
  /\ pc = "reading"
  /\ replayed < Len(script)
  /\ script[replayed + 1].op = "point"
  /\ \E r \in {read_point(spec, reader)} :
       /\ reader' = r.transcript
       /\ pc' = IF r.status = "panic" THEN "panic" ELSE "reading"
       /\ ret' = [op |-> "read_point", status |-> r.status, value |-> r.value,
                  stream |-> reader.reader]
       /\ input' = r.input
  /\ base' = reader.state
  /\ replayed' = replayed + 1
  /\ UNCHANGED << other_vars, writer, script, honest, kind, params, spec, spec_ref, state,
                  state_expected, absorbing, calls, absorptions >>

\* reader.read_scalar() where the writer wrote a scalar
ReadScalar ==
  /\ kind = "transcript"
  /\ pc = "reading"
  /\ replayed < Len(script)
  /\ script[replayed + 1].op = "scalar"
  /\ \E r \in {read_scalar(spec, reader)} :
       /\ reader' = r.transcript
       /\ pc' = IF r.status = "panic" THEN "panic" ELSE "reading"
       /\ ret' = [op |-> "read_scalar", status |-> r.status, value |-> r.value,
                  stream |-> reader.reader]
       /\ input' = r.input
  /\ base' = reader.state
  /\ replayed' = replayed + 1
  /\ UNCHANGED << other_vars, writer, script, honest, kind, params, spec, spec_ref, state,
                  state_expected, absorbing, calls, absorptions >>

\* reader.squeeze_challenge() where the writer squeezed
ReaderSqueeze ==
  /\ kind = "transcript"
  /\ pc = "reading"
  /\ replayed < Len(script)
  /\ script[replayed + 1].op = "challenge"
  /\ \E r \in {squeeze_challenge(spec, reader.state)} :
       /\ reader' = [reader EXCEPT !.state = r.state]
       /\ pc' = IF r.status = "panic" THEN "panic" ELSE "reading"
       /\ ret' = [op |-> "squeeze_challenge", status |-> r.status, value |-> r.value,
                  stream |-> reader.reader]
       /\ input' = r.input
  /\ base' = reader.state
  /\ replayed' = replayed + 1
  /\ UNCHANGED << other_vars, writer, script, honest, kind, params, spec, spec_ref, state,
                  state_expected, absorbing, calls, absorptions >>

TranscriptNext ==
  \/ WritePoint
  \/ WriteScalar
  \/ WriterSqueeze
  \/ Finalize
  \/ ReaderInit
  \/ ReaderInitForged
  \/ ReadPoint
  \/ ReadScalar
  \/ ReaderSqueeze

SpecTranscript == TranscriptInit /\ [][TranscriptNext]_vars

(***************************************************************************)
(* transcript.rs, PoseidonWrite<W, C, ..> over a stream W whose write_all  *)
(* can fail: a writer with room for a fixed number of bytes               *)
(***************************************************************************)
\* PoseidonWrite::init(writer, r_f, r_p) over a stream with `room` bytes left
BoundedWriterInit ==
  /\ pc = "writing"
  /\ kind = "bounded_writer"
  /\ params \in [r_f : 0 .. MaxRF, r_p : 0 .. MaxRP]
  /\ \E debug_assertions \in BOOLEAN :
       spec = Spec_new(debug_assertions, T, RATE, params.r_f, params.r_p)
  /\ ~spec.panic
  /\ spec_ref = NoSpec
  /\ state = NoState
  /\ state_expected = NoState
  /\ absorbing = << >>
  /\ input = << >>
  /\ base = NewHasher
  /\ calls = NoCalls
  /\ ret = NoResult
  /\ absorptions = << >>
  /\ \E room \in 0 .. MaxRoom : writer = [NewWriter EXCEPT !.room = << room >>]
  /\ reader = NewReader(<< >>)
  /\ script = << >>
  /\ replayed = 0
  /\ honest = TRUE
  /\ grain = NoGrain
  /\ matrix = NoMatrix
  /\ round = 0
  /\ trace = << >>

BoundedWriterNext ==
  \/ WritePoint
  \/ WriteScalar
  \/ WriterSqueeze

SpecBoundedWriter == BoundedWriterInit /\ [][BoundedWriterNext]_vars

(***************************************************************************)
(* The constructors, instantiated with any geometry, in either build       *)
(***************************************************************************)
GeometryInit ==
  /\ pc = "new"
  /\ kind = "geometry"
  /\ params \in [t : 1 .. MaxT, rate : 1 .. MaxT, r_f : 0 .. MaxRF, r_p : 0 .. MaxRP,
                  debug_assertions : BOOLEAN]
  /\ spec = NoSpec
  /\ spec_ref = NoSpec
  /\ state = NoState
  /\ state_expected = NoState
  /\ HasherUnused
  /\ TranscriptUnused
  /\ grain = NoGrain
  /\ matrix = NoMatrix
  /\ round = 0
  /\ trace = << >>

\* Spec::<F, T, RATE>::new(r_f, r_p)
GeometrySpecNew ==
  /\ kind = "geometry"
  /\ pc = "new"
  /\ spec' = Spec_new(params.debug_assertions, params.t, params.rate,
                      params.r_f, params.r_p)
  /\ pc' = IF spec'.panic THEN "panic" ELSE "built"
  /\ UNCHANGED << other_vars, transcript_vars, hasher_vars, kind, params, spec_ref, state,
                  state_expected >>

\* Poseidon::<F, T, RATE>::new(r_f, r_p)
GeometryPoseidonNew ==
  /\ kind = "geometry"
  /\ pc = "new"
  /\ spec' = Spec_new(params.debug_assertions, params.t, params.rate,
                      params.r_f, params.r_p)
  /\ pc' = IF spec'.panic THEN "panic" ELSE "hasher"
  /\ state' = IF spec'.panic THEN state ELSE State_default(params.t)
  /\ UNCHANGED << other_vars, transcript_vars, hasher_vars, kind, params, spec_ref,
                  state_expected >>

GeometryNext == GeometrySpecNew \/ GeometryPoseidonNew

SpecGeometry == GeometryInit /\ [][GeometryNext]_vars

(***************************************************************************)
(* grain.rs: the bit stream of a Grain instance after its warm-up          *)
(***************************************************************************)
\* The instance built by Grain::generate(r_f, r_p), after the 160 discarded bits
GrainInit ==
  /\ pc = "warm"
  /\ kind = "grain"
  /\ params \in [r_f : 0 .. MaxRF, r_p : 0 .. MaxRP]
  /\ params.r_f % 2 = 0
  /\ \E bs \in {Warm(InitialBits(T, params.r_f, params.r_p), WARMUP)} :
       grain = [bit_sequence |-> bs, before |-> bs, bits |-> 0, advances |-> 0,
                last |-> 0, out |-> FALSE]
  /\ matrix = NoMatrix
  /\ round = 0
  /\ trace = << >>
  /\ spec = NoSpec
  /\ spec_ref = NoSpec
  /\ state = NoState
  /\ state_expected = NoState
  /\ HasherUnused
  /\ TranscriptUnused

\* grain.next(), as called by `self.take(F::NUM_BITS as usize)`
GrainNextBit ==
  /\ kind = "grain"
  /\ grain.bits < MaxBits
  /\ \E r \in {next(grain.bit_sequence)} :
       grain' = [bit_sequence |-> r.g, before |-> grain.bit_sequence,
                 bits |-> grain.bits + 1, advances |-> grain.advances + r.advances,
                 last |-> r.advances, out |-> r.out]
  /\ pc' = "bit"
  /\ UNCHANGED << matrix, round, trace, transcript_vars, hasher_vars, kind, params, spec, spec_ref,
                  state, state_expected >>

GrainNext == GrainNextBit

SpecGrain == GrainInit /\ [][GrainNext]_vars

(***************************************************************************)
(* grain.rs: Grain::generate, one advance, pair or decoding at a time      *)
(***************************************************************************)
\* The field elements Grain::generate draws with rejection sampling
RejectionSamples(r_f, r_p) == (r_p + r_f) * T

\* All the field elements Grain::generate draws: the constants, xs and ys
AllSamples(r_f, r_p) == RejectionSamples(r_f, r_p) + T + T

\* `F::Repr::default()` for a rejection sample, `[0u8; 64]` for xs and ys
FreshView(rejection) ==
  IF rejection THEN [k \in 0 .. (n_bytes - 1) |-> 0] ELSE [k \in 0 .. 63 |-> 0]

\* The register after the append_bits calls of Grain::generate
GenerateInit ==
  /\ pc = "init"
  /\ kind = "generate"
  /\ params \in [r_f : 0 .. MaxRF, r_p : 0 .. MaxRP]
  /\ params.r_f % 2 = 0
  /\ \E bs \in {InitialBits(T, params.r_f, params.r_p)} :
       grain = [bit_sequence |-> bs, before |-> bs, last |-> 0, out |-> FALSE,
                warmup |-> 0, view |-> FreshView(RejectionSamples(params.r_f, params.r_p) > 0),
                seen |-> << >>, attempt |-> << >>, drawn |-> << >>,
                discarded |-> 0, rejected |-> 0]
  /\ matrix = NoMatrix
  /\ round = 0
  /\ trace = << >>
  /\ spec = NoSpec
  /\ spec_ref = NoSpec
  /\ state = NoState
  /\ state_expected = NoState
  /\ HasherUnused
  /\ TranscriptUnused

\* One pass of `for _ in 0..160 { grain.new_bit(); }`
GenerateWarmUp ==
  /\ kind = "generate"
  /\ pc = "init"
  /\ grain.warmup < WARMUP
  /\ \E a \in {new_bit(grain.bit_sequence)} :
       grain' = [grain EXCEPT !.bit_sequence = a.g, !.before = grain.bit_sequence,
                              !.last = 1, !.out = a.out, !.warmup = @ + 1]
  /\ pc' = IF grain.warmup + 1 = WARMUP THEN "fill" ELSE "init"
  /\ UNCHANGED << matrix, round, trace, transcript_vars, hasher_vars, kind, params, spec,
                  spec_ref, state, state_expected >>

\* A decimation loop that tests the same bit again instead of advancing
GenerateDiscard_spin ==
  /\ kind = "generate"
  /\ pc = "fill"
  /\ ~new_bit(grain.bit_sequence).out
  /\ UNCHANGED vars

\* Iterator::next, one pass of `while !self.new_bit() { self.new_bit(); }`:
\* the condition drew a 0 and the body draws the bit that is thrown away
GenerateDiscard ==
  /\ kind = "generate"
  /\ pc = "fill"
  /\ \E a \in {new_bit(grain.bit_sequence)} :
       /\ ~a.out
       /\ \E b \in {new_bit(a.g)} :
            grain' = [grain EXCEPT !.bit_sequence = b.g, !.before = grain.bit_sequence,
                                   !.last = 2, !.out = b.out, !.discarded = @ + 1]
  /\ UNCHANGED << pc, matrix, round, trace, transcript_vars, hasher_vars, kind, params,
                  spec, spec_ref, state, state_expected >>

\* Iterator::next, the condition drew a 1: `Some(self.new_bit())`, and the
\* body of `for (i, bit) in self.take(NUM_BITS).enumerate()` for that bit
GenerateObserve ==
  /\ kind = "generate"
  /\ pc = "fill"
  /\ \E a \in {new_bit(grain.bit_sequence)} :
       /\ a.out
       /\ \E b \in {new_bit(a.g)} :
            grain' = [grain EXCEPT !.bit_sequence = b.g, !.before = grain.bit_sequence,
                                   !.last = 2, !.out = b.out,
                                   !.view = PutBit(@, Len(grain.seen), b.out),
                                   !.seen = Append(@, b.out)]
  /\ pc' = IF Len(grain.seen) + 1 = NUM_BITS THEN "decode" ELSE "fill"
  /\ UNCHANGED << matrix, round, trace, transcript_vars, hasher_vars, kind, params, spec,
                  spec_ref, state, state_expected >>

\* The end of an attempt, taken: `if let Some(f) = F::from_repr_vartime(bytes)
\* { break f; }` for a round constant, `F::from_uniform_bytes(&bytes)` for an
\* entry of xs or ys
GenerateAccept ==
  /\ kind = "generate"
  /\ pc = "decode"
  /\ \E rejection \in {Len(grain.drawn) < RejectionSamples(params.r_f, params.r_p)} :
       \E f \in {IF rejection THEN from_repr_vartime(grain.view)
                 ELSE << from_uniform_bytes(grain.view) >>} :
          /\ f # << >>
          /\ grain' = [grain EXCEPT
                         !.drawn = Append(@, f[1]),
                         !.attempt = [bits |-> grain.seen, rejection |-> rejection,
                                      accepted |-> TRUE],
                         !.seen = << >>,
                         !.last = 0,
                         !.view = FreshView(Len(grain.drawn) + 1
                                              < RejectionSamples(params.r_f, params.r_p))]
  /\ pc' = IF Len(grain.drawn) + 1 = AllSamples(params.r_f, params.r_p)
           THEN "done" ELSE "fill"
  /\ UNCHANGED << matrix, round, trace, transcript_vars, hasher_vars, kind, params, spec,
                  spec_ref, state, state_expected >>

\* The end of an attempt, not taken: from_repr_vartime returned None and
\* `loop` starts again with `F::Repr::default()`
GenerateReject ==
  /\ kind = "generate"
  /\ pc = "decode"
  /\ Len(grain.drawn) < RejectionSamples(params.r_f, params.r_p)
  /\ from_repr_vartime(grain.view) = << >>
  /\ grain' = [grain EXCEPT
                 !.attempt = [bits |-> grain.seen, rejection |-> TRUE, accepted |-> FALSE],
                 !.seen = << >>,
                 !.last = 0,
                 !.rejected = @ + 1,
                 !.view = FreshView(TRUE)]
  /\ pc' = "fill"
  /\ UNCHANGED << matrix, round, trace, transcript_vars, hasher_vars, kind, params, spec,
                  spec_ref, state, state_expected >>

GenerateNext ==
  \/ GenerateWarmUp
  \/ GenerateDiscard
  \/ GenerateObserve
  \/ GenerateAccept
  \/ GenerateReject

SpecGenerate == GenerateInit /\ [][GenerateNext]_vars

\* Every statement of Grain::generate that can run does run in the end
SpecGenerateFair == SpecGenerate /\ WF_vars(GenerateNext)

(***************************************************************************)
(* matrix.rs and spec.rs: the matrix operations on any matrix              *)
(***************************************************************************)
MatrixInit ==
  /\ pc = "input"
  /\ kind = "matrix"
  /\ \E n \in Dims :
       \E a \in [0 .. (n - 1) -> [0 .. (n - 1) -> Entries]] :
          matrix = [op |-> "input", a |-> a]
  /\ grain = NoGrain
  /\ round = 0
  /\ trace = << >>
  /\ params = [r_f |-> 0, r_p |-> 0]
  /\ spec = NoSpec
  /\ spec_ref = NoSpec
  /\ state = NoState
  /\ state_expected = NoState
  /\ HasherUnused
  /\ TranscriptUnused

\* a.invert()
MatrixInvert ==
  /\ kind = "matrix"
  /\ pc = "input"
  /\ \E r \in {invert(matrix.a)} :
       /\ matrix' = [op |-> "invert", a |-> matrix.a, r |-> r]
       /\ pc' = IF r.panic THEN "panic" ELSE "done"
  /\ UNCHANGED << grain, round, trace, transcript_vars, hasher_vars, kind, params, spec, spec_ref,
                  state, state_expected >>

\* MDSMatrix::<F, T, RATE>(a).factorise()
MatrixFactorise ==
  /\ kind = "matrix"
  /\ pc = "input"
  /\ Dim(matrix.a) = T
  /\ \E r \in {factorise(matrix.a, RATE)} :
       /\ matrix' = [op |-> "factorise", a |-> matrix.a, r |-> r]
       /\ pc' = IF r.panic THEN "panic" ELSE "done"
  /\ UNCHANGED << grain, round, trace, transcript_vars, hasher_vars, kind, params, spec, spec_ref,
                  state, state_expected >>

\* Spec::calculate_sparse_matrices(r_p, &MDSMatrix(a))
MatrixSparse ==
  /\ kind = "matrix"
  /\ pc = "input"
  /\ Dim(matrix.a) = T
  /\ \E r_p \in 0 .. MaxRP :
       \E r \in {calculate_sparse_matrices(r_p, RATE, matrix.a)} :
          /\ matrix' = [op |-> "sparse", a |-> matrix.a, r |-> r]
          /\ params' = [params EXCEPT !.r_p = r_p]
          /\ pc' = IF r.panic THEN "panic" ELSE "done"
  /\ UNCHANGED << grain, round, trace, transcript_vars, hasher_vars, kind, spec, spec_ref,
                  state, state_expected >>

MatrixNext == MatrixInvert \/ MatrixFactorise \/ MatrixSparse

SpecMatrix == MatrixInit /\ [][MatrixNext]_vars

(***************************************************************************)
(* permutation.rs: the two permutations of cross_test, round by round      *)
(***************************************************************************)
RoundsInit ==
  /\ pc = "input"
  /\ kind = "rounds"
  /\ params \in [r_f : 0 .. MaxRF, r_p : 0 .. MaxRP]
  /\ \E debug_assertions \in BOOLEAN :
       /\ spec = Spec_new(debug_assertions, T, RATE, params.r_f, params.r_p)
       /\ spec_ref = SpecRef_new(debug_assertions, T, RATE, params.r_f, params.r_p)
  /\ ~spec.panic
  /\ state \in [Lanes -> 0 .. MaxWord]
  /\ state_expected = state
  /\ HasherUnused
  /\ TranscriptUnused
  /\ grain = NoGrain
  /\ matrix = NoMatrix
  /\ round = 0
  /\ trace = << >>

\* "First half of the full rounds" of Spec::permute; the first r_f / 2 rounds
\* of SpecRef::permute
RoundsFirstHalf ==
  /\ kind = "rounds"
  /\ pc = "input"
  /\ state' = PermuteFirst(spec, state)
  /\ state_expected' = RefRoundsTo(spec_ref, state_expected, 1, spec_ref.r_f \div 2)
  /\ pc' = "partial"
  /\ UNCHANGED << other_vars, transcript_vars, hasher_vars, kind, params, spec, spec_ref >>

\* One pass of the loop "Partial rounds" of Spec::permute; one pass of the
\* second loop of SpecRef::permute
RoundsPartial ==
  /\ kind = "rounds"
  /\ pc = "partial"
  /\ round < Len(spec.constants.partial)
  /\ state' = PartialRound(spec.mds_matrices.sparse_matrices[round + 1], state,
                           spec.constants.partial[round + 1])
  /\ state_expected' = RefRound(spec_ref, state_expected,
                                (spec_ref.r_f \div 2) + round + 1, FALSE)
  /\ round' = round + 1
  /\ UNCHANGED << pc, grain, matrix, trace, transcript_vars, hasher_vars, kind, params, spec,
                  spec_ref >>

\* "Second half of the full rounds" of Spec::permute; the third loop of
\* SpecRef::permute
RoundsSecondHalf ==
  /\ kind = "rounds"
  /\ pc = "partial"
  /\ round = Len(spec.constants.partial)
  /\ state' = PermuteLast(spec, state)
  /\ state_expected' = RefRoundsTo(spec_ref, state_expected,
                                   (spec_ref.r_f \div 2) + spec_ref.r_p + 1,
                                   Len(spec_ref.constants))
  /\ pc' = "done"
  /\ UNCHANGED << other_vars, transcript_vars, hasher_vars, kind, params, spec, spec_ref >>

RoundsNext == RoundsFirstHalf \/ RoundsPartial \/ RoundsSecondHalf

SpecRounds == RoundsInit /\ [][RoundsNext]_vars

(***************************************************************************)
(* permutation.rs: Spec::permute statement by statement                    *)
(***************************************************************************)
ScheduleInit ==
  /\ pc = "start"
  /\ kind = "schedule"
  /\ params \in [r_f : 0 .. MaxRF, r_p : 0 .. MaxRP]
  /\ \E debug_assertions \in BOOLEAN :
       spec = Spec_new(debug_assertions, T, RATE, params.r_f, params.r_p)
  /\ ~spec.panic
  /\ spec_ref = NoSpec
  /\ state \in [Lanes -> 0 .. MaxWord]
  /\ state_expected = state
  /\ HasherUnused
  /\ TranscriptUnused
  /\ grain = NoGrain
  /\ matrix = NoMatrix
  /\ round = 0
  /\ trace = << >>

\* One statement of the block "First half of the full rounds": round is the
\* entry of start (1-based) the loop is at, past FirstLoopLast(spec) when the
\* statements after the loop run
ScheduleFirstHalf ==
  /\ kind = "schedule"
  /\ \/ /\ pc = "start"
        /\ state' = add_constants(state, spec.constants.start[1])
        /\ trace' = Append(trace, << "add_constants", "start", 0 >>)
        /\ round' = 2
        /\ pc' = "first.sbox"
     \/ /\ pc = "first.sbox"
        /\ state' = sbox_full(state)
        /\ trace' = Append(trace, << "sbox_full" >>)
        /\ pc' = "first.add"
        /\ UNCHANGED round
     \/ /\ pc = "first.add"
        /\ \E k \in {IF round <= FirstLoopLast(spec) THEN round
                      ELSE Len(spec.constants.start)} :
             /\ state' = add_constants(state, spec.constants.start[k])
             /\ trace' = Append(trace, << "add_constants", "start", k - 1 >>)
        /\ pc' = "first.mds"
        /\ UNCHANGED round
     \/ /\ pc = "first.mds"
        /\ round <= FirstLoopLast(spec)
        /\ state' = mds_apply(spec.mds_matrices.mds, state)
        /\ trace' = Append(trace, << "apply", "mds" >>)
        /\ round' = round + 1
        /\ pc' = "first.sbox"
     \/ /\ pc = "first.mds"
        /\ round > FirstLoopLast(spec)
        /\ state' = mds_apply(spec.mds_matrices.pre_sparse_mds, state)
        /\ trace' = Append(trace, << "apply", "pre_sparse_mds" >>)
        /\ round' = 1
        /\ pc' = IF Len(spec.constants.partial) >= 1
                     /\ Len(spec.mds_matrices.sparse_matrices) >= 1
                 THEN "partial.sbox" ELSE "second.sbox"
  /\ UNCHANGED << grain, matrix, transcript_vars, hasher_vars, kind, params, spec,
                  spec_ref, state_expected >>

\* One statement of the block "Partial rounds": round is the pair of the zip
\* (1-based) the loop is at
SchedulePartial ==
  /\ kind = "schedule"
  /\ \/ /\ pc = "partial.sbox"
        /\ state' = sbox_part(state)
        /\ trace' = Append(trace, << "sbox_part" >>)
        /\ pc' = "partial.add"
        /\ UNCHANGED round
     \/ /\ pc = "partial.add"
        /\ state' = add_constant(state, spec.constants.partial[round])
        /\ trace' = Append(trace, << "add_constant", "partial", round - 1 >>)
        /\ pc' = "partial.sparse"
        /\ UNCHANGED round
     \/ /\ pc = "partial.sparse"
        /\ state' = sparse_apply(spec.mds_matrices.sparse_matrices[round], state)
        /\ trace' = Append(trace, << "apply", "sparse_matrices", round - 1 >>)
        /\ \/ /\ round + 1 <= Len(spec.constants.partial)
              /\ round + 1 <= Len(spec.mds_matrices.sparse_matrices)
              /\ round' = round + 1
              /\ pc' = "partial.sbox"
           \/ /\ \/ round + 1 > Len(spec.constants.partial)
                 \/ round + 1 > Len(spec.mds_matrices.sparse_matrices)
              /\ round' = 1
              /\ pc' = "second.sbox"
  /\ UNCHANGED << grain, matrix, transcript_vars, hasher_vars, kind, params, spec,
                  spec_ref, state_expected >>

\* One statement of the block "Second half of the full rounds": round is the
\* entry of end (1-based) the loop is at, past Len(end) when the two
\* statements after the loop run
ScheduleSecondHalf ==
  /\ kind = "schedule"
  /\ \/ /\ pc = "second.sbox"
        /\ state' = sbox_full(state)
        /\ trace' = Append(trace, << "sbox_full" >>)
        /\ pc' = IF round <= Len(spec.constants.end) THEN "second.add" ELSE "second.mds"
        /\ UNCHANGED round
     \/ /\ pc = "second.add"
        /\ state' = add_constants(state, spec.constants.end[round])
        /\ trace' = Append(trace, << "add_constants", "end", round - 1 >>)
        /\ pc' = "second.mds"
        /\ UNCHANGED round
     \/ /\ pc = "second.mds"
        /\ state' = mds_apply(spec.mds_matrices.mds, state)
        /\ trace' = Append(trace, << "apply", "mds" >>)
        /\ \/ /\ round <= Len(spec.constants.end)
              /\ round' = round + 1
              /\ pc' = "second.sbox"
           \/ /\ round > Len(spec.constants.end)
              /\ pc' = "done"
              /\ UNCHANGED round
  /\ UNCHANGED << grain, matrix, transcript_vars, hasher_vars, kind, params, spec,
                  spec_ref, state_expected >>

ScheduleNext == ScheduleFirstHalf \/ SchedulePartial \/ ScheduleSecondHalf

SpecSchedule == ScheduleInit /\ [][ScheduleNext]_vars

(***************************************************************************)
(* spec.rs: SparseMDSMatrix, conversion from a dense matrix and apply      *)
(***************************************************************************)
\* Bottom-right blocks tried by the conversion: the identity and three others
Blocks ==
  { << << 1, 0 >>, << 0, 1 >> >>, << << 1, 1 >>, << 0, 1 >> >>,
    << << 2, 0 >>, << 0, 1 >> >>, << << 1, 0 >>, << 0, 0 >> >> }

\* The T x T matrix with first row `row`, first-column tail `col` and
\* bottom-right block `block`
Framed(row, col, block) ==
  [i \in Lanes |-> [j \in Lanes |->
     IF i = 0 THEN row[j]
     ELSE IF j = 0 THEN col[i - 1]
     ELSE block[i][j]]]

SparseInit ==
  /\ pc = "input"
  /\ kind = "sparse"
  /\ \E row \in [Lanes -> Entries], col \in [0 .. (RATE - 1) -> Entries],
        block \in Blocks :
       matrix = [op |-> "input", a |-> Framed(row, col, block)]
  /\ grain = NoGrain
  /\ round = 0
  /\ trace = << >>
  /\ params = [r_f |-> 0, r_p |-> 0]
  /\ spec = NoSpec
  /\ spec_ref = NoSpec
  /\ state = NoState
  /\ state_expected = NoState
  /\ HasherUnused
  /\ TranscriptUnused

\* SparseMDSMatrix::from(MDSMatrix(a))
SparseFrom ==
  /\ kind = "sparse"
  /\ pc = "input"
  /\ \E r \in {sparse_from(matrix.a, RATE)} :
       /\ matrix' = [op |-> "from", a |-> matrix.a, r |-> r]
       /\ pc' = IF r.panic THEN "panic" ELSE "sparse"
  /\ UNCHANGED << grain, round, trace, transcript_vars, hasher_vars, kind, params, spec, spec_ref,
                  state, state_expected >>

\* sparse.apply(&mut state) on a state with the words `words`
SparseApply ==
  /\ kind = "sparse"
  /\ pc = "sparse"
  /\ \E words \in [Lanes -> Entries] :
       /\ matrix' = [op |-> "apply", a |-> matrix.a, r |-> matrix.r, words |-> words]
       /\ state' = sparse_apply(matrix.r.sp, words)
  /\ pc' = "done"
  /\ UNCHANGED << grain, round, trace, transcript_vars, hasher_vars, kind, params, spec, spec_ref,
                  state_expected >>

SparseNext == SparseFrom \/ SparseApply

SpecSparse == SparseInit /\ [][SparseNext]_vars

(***************************************************************************)
(* Properties                                                              *)
(***************************************************************************)
\* C1: for every Spec built by Spec::new and every input state, the optimized
\* permutation ends in the same state as the reference permutation (add
\* C_raw[r], S-box, dense MDS, round by round)
C1_CrossEquivalence == pc = "done" => state = state_expected

\* a finished cross test with both halves of full rounds and partial rounds
C1_Witness ==
  /\ pc = "done"
  /\ params.r_f >= 4
  /\ params.r_p >= 2
  /\ state = state_expected
  /\ state # [i \in Lanes |-> 0]

\* C2: on a fresh variable-length hasher, update(x) followed by squeeze()
\* returns lane 1 of the state reached from (2^64, 0, .., 0) by appending 1 to
\* x, padding with zeros to a multiple of RATE, and adding block after block
\* into lanes 1..T-1 with a permutation after each block
C2_PaddingReference ==
  (kind = "variable" /\ pc = "squeezed" /\ calls.update = 1 /\ calls.squeeze = 1)
     => ret = << PaddingReference(spec, input) >>

\* update of a whole number of blocks, then squeeze: the extra block (1, 0)
C2_Witness ==
  /\ kind = "variable"
  /\ pc = "squeezed"
  /\ calls.update = 1
  /\ calls.squeeze = 1
  /\ Len(input) = 2 * RATE
  /\ ret = << PaddingReference(spec, input) >>

\* C3: however the input is split over update calls, the hasher has the state
\* and the absorption line of a single update with the concatenation, and the
\* squeeze that follows returns the value it returns after that single update
C3_SplitIndependence ==
  kind = "variable" =>
     /\ pc \in {"new", "updated"} =>
          \E h \in {update(spec, base, input)} :
             state = h.state /\ absorbing = h.absorbing
     /\ pc = "squeezed" =>
          \E h \in {squeeze(spec, update(spec, base, input))} :
             state = h.state /\ ret = << h.out >>

\* three updates, one of them empty, that together fill more than one block
C3_Witness ==
  /\ kind = "variable"
  /\ pc = "updated"
  /\ calls.update = 3
  /\ calls.squeeze = 0
  /\ Len(input) > RATE
  /\ Len(absorbing) = 1
  /\ Len(absorptions) = 0

\* C4: after new() and after every update and squeeze the absorption line is
\* shorter than RATE, the assertion of squeeze holds, and the line is empty
\* right after a squeeze
C4_BufferBelowRate ==
  kind = "variable" =>
     /\ pc # "panic"
     /\ Len(absorbing) < RATE
     /\ pc = "squeezed" => absorbing = << >>

\* a squeeze that found one element in the absorption line
C4_Witness ==
  /\ kind = "variable"
  /\ pc = "squeezed"
  /\ calls.update >= 1
  /\ Len(input) % RATE = 1
  /\ absorbing = << >>

\* C5: every absorption of update, squeeze, the constant-length hash and the
\* Merkle hash leaves lane 0 as it was; only lanes 1..T-1 take input
C5_CapacityLaneUntouched ==
  \A k \in DOMAIN absorptions :
     /\ absorptions[k].after[0] = absorptions[k].before[0]
     /\ DOMAIN absorptions[k].after = Lanes

\* an update that absorbed two blocks, each changing a rate lane
C5_Witness ==
  /\ kind = "variable"
  /\ pc = "updated"
  /\ Len(absorptions) = 2
  /\ \A k \in DOMAIN absorptions : absorptions[k].after # absorptions[k].before

\* C6: a reader over the bytes of finalize() that runs the writer's
\* operations in order reads back every written point and scalar and gets the
\* writer's challenge at every squeeze, without an error or a panic
C6_TranscriptConsistency ==
  (kind = "transcript" /\ honest /\ replayed >= 1) =>
     /\ pc = "reading"
     /\ ret.status = "ok"
     /\ ret.value = script[replayed].value

\* a point, a scalar and a challenge written, and all three replayed
C6_Witness ==
  /\ kind = "transcript"
  /\ honest
  /\ pc = "reading"
  /\ replayed = 3
  /\ script[1].op = "point"
  /\ script[2].op = "scalar"
  /\ script[3].op = "challenge"
  /\ ret.op = "squeeze_challenge"
  /\ ret.value = script[3].value

\* C7: every transcript operation gives the sponge a one-element tag before
\* its payload: a scalar operation absorbs [tag, x], a point operation a tag
\* and the encoding of the point, a challenge a tag alone
C7_TagThenPayload ==
  (kind = "transcript" /\ ret.status = "ok") =>
     /\ ret.op \in {"write_scalar", "read_scalar"} =>
          Len(input) = 2 /\ input[2] = ret.value
     /\ ret.op \in {"write_point", "read_point"} =>
          Len(input) = 1 + NUMBER_OF_LIMBS + 1
     /\ ret.op = "squeeze_challenge" => Len(input) = 1

\* C8: read_point and read_scalar on a stream that is too short or whose
\* bytes do not decode return an error without a panic, and a read that
\* returns an error leaves the hasher (state and absorption line) as it was
C8_ReadErrorsAbsorbNothing ==
  kind = "transcript" =>
     /\ (/\ ret.op = "read_scalar"
         /\ \/ Len(ret.stream) < n_bytes
            \/ from_repr(ViewOf(ret.stream, n_bytes)) = << >>)
          => (ret.status = "err" /\ pc = "reading")
     /\ (/\ ret.op = "read_point"
         /\ \/ Len(ret.stream) < base_n_bytes
            \/ from_bytes(ViewOf(ret.stream, base_n_bytes)) = << >>)
          => (ret.status = "err" /\ pc = "reading")
     /\ (ret.op \in {"read_point", "read_scalar"} /\ ret.status = "err")
          => reader.state = base

\* a scalar read that met a non-canonical byte after an earlier value had
\* been absorbed
C8_Witness ==
  /\ kind = "transcript"
  /\ ~honest
  /\ ret.op = "read_scalar"
  /\ ret.status = "err"
  /\ Len(ret.stream) >= n_bytes
  /\ replayed >= 2
  /\ reader.state = base
  /\ base # NewHasher

\* C10: a Spec built by Spec::new(r_f, r_p) has r_f/2 + 1 arrays in start, r_p
\* scalars in partial, r_f/2 - 1 arrays in end and r_p sparse matrices
C10_ConstantCounts ==
  (kind = "cross_test" /\ pc \in {"built", "input", "ref_done", "done"}) =>
     /\ Len(spec.constants.start) = (params.r_f \div 2) + 1
     /\ Len(spec.constants.partial) = params.r_p
     /\ Len(spec.constants.end) = (params.r_f \div 2) - 1
     /\ Len(spec.mds_matrices.sparse_matrices) = params.r_p
     /\ \A k \in DOMAIN spec.constants.start : DOMAIN spec.constants.start[k] = Lanes
     /\ \A k \in DOMAIN spec.constants.end : DOMAIN spec.constants.end[k] = Lanes

\* a Spec built with several partial rounds and a non-empty end
C10_Witness ==
  /\ pc = "built"
  /\ params.r_f = 4
  /\ params.r_p >= 2
  /\ Len(spec.constants.start) = 3
  /\ Len(spec.constants.end) = 1

\* C11: Spec::new(r_f, r_p) panics for every odd r_f, in every geometry and
\* build, and a Spec that was built has an even number of full rounds
C11_OddFullRoundsPanic ==
  /\ (kind = "geometry" /\ pc # "new" /\ params.r_f % 2 = 1) =>
        (pc = "panic" /\ spec.panic)
  /\ (spec # NoSpec /\ ~spec.panic) => spec.r_f % 2 = 0

\* Spec::<F, 3, 2>::new(3, r_p) has panicked
C11_Witness ==
  /\ kind = "geometry"
  /\ pc = "panic"
  /\ params.r_f = 3
  /\ params.t = 3
  /\ params.rate = 2
  /\ spec.panic

\* C12: Spec::new (and every constructor that calls it) panics whenever
\* T # RATE + 1, for every r_f and r_p, r_p = 0 included
C12_GeometryRejected ==
  (kind = "geometry" /\ pc # "new" /\ params.t # params.rate + 1) => pc = "panic"

\* C13: the value returned by squeeze, by the constant-length hash (any LEN)
\* and by the Merkle hash is lane 1 of a state that was permuted at least
\* once in the call: the permutation of the last absorbed state
C13_OutputAfterPermutation ==
  (kind \in {"variable", "constant", "merkle"} /\ pc \in {"squeezed", "hashed"}) =>
     /\ Len(absorptions) >= 1
     /\ ret = << permute(spec, absorptions[Len(absorptions)].after)[1] >>

\* C14: the constant-length hash of LEN elements starts from the
\* constant-length initial state, absorbs the RATE-sized chunks in order with
\* a permutation after each, ceil(LEN / RATE) permutations in all, treats a
\* short final chunk as padded with zeros, and returns lane 1
C14_ConstantLengthHash ==
  (kind = "constant" /\ pc = "hashed") =>
     /\ Len(absorptions) = (Len(input) + RATE - 1) \div RATE
     /\ \A k \in DOMAIN absorptions :
          absorptions[k].before =
            (IF k = 1 THEN init_constant_length_mode(T, Len(input))
             ELSE permute(spec, absorptions[k - 1].after))
     /\ state = ReferenceLoop(spec, init_constant_length_mode(T, Len(input)),
                              input \o [k \in 1 .. ((RATE - (Len(input) % RATE)) % RATE) |-> 0],
                              1)
     /\ ret = << state[1] >>

\* a hash of three elements: one full chunk and a short one
C14_Witness ==
  /\ kind = "constant"
  /\ pc = "hashed"
  /\ Len(input) = RATE + 1
  /\ input[RATE + 1] # 0
  /\ Len(absorptions) = 2
  /\ ret = << state[1] >>

\* C15 as claimed: every observed bit takes exactly two advances of the
\* register, the kept bit being the one generated right after the first,
\* so k observed bits take 2k advances
C15_TwoAdvancesPerBit ==
  (kind = "grain" /\ pc = "bit") =>
     /\ grain.last = 2
     /\ grain.advances = 2 * grain.bits
     /\ grain.out = new_bit(new_bit(grain.before).g).out

\* C15 amended: bits are generated in pairs; every pair whose first bit is 0
\* is discarded whole, and the observed bit is the second bit of the first
\* pair whose first bit is 1: an even number of advances, at least two
C15_PairsUntilLeadingOne ==
  (kind = "grain" /\ pc = "bit") =>
     /\ grain.last >= 2
     /\ grain.last % 2 = 0
     /\ grain.advances >= 2 * grain.bits
     /\ \A j \in 1 .. (grain.last \div 2) :
          new_bit(Warm(grain.before, 2 * j - 2)).out = (j = grain.last \div 2)
     /\ grain.out = new_bit(Warm(grain.before, grain.last - 1)).out
     /\ grain.bit_sequence = Warm(grain.before, grain.last)

\* a call of next() that discarded a pair before it kept a bit
C15_Witness ==
  /\ kind = "grain"
  /\ pc = "bit"
  /\ grain.last >= 4
  /\ ~new_bit(grain.before).out
  /\ grain.advances > 2 * grain.bits

\* The determinant of a matrix of dimension 1, 2 or 3, in the field
Det(m) ==
  IF Dim(m) = 1 THEN m[0][0] % MODULUS
  ELSE IF Dim(m) = 2 THEN FSub(FMul(m[0][0], m[1][1]), FMul(m[0][1], m[1][0]))
  ELSE FAdd(FSub(FMul(m[0][0], FSub(FMul(m[1][1], m[2][2]), FMul(m[1][2], m[2][1]))),
                 FMul(m[0][1], FSub(FMul(m[1][0], m[2][2]), FMul(m[1][2], m[2][0])))),
            FMul(m[0][2], FSub(FMul(m[1][0], m[2][1]), FMul(m[1][1], m[2][0]))))

\* C16: for every invertible matrix A, invert(A) completes and returns R
\* with A * R = R * A = I
C16_InvertReturnsInverse ==
  (kind = "matrix" /\ matrix.op = "invert" /\ Det(matrix.a) # 0) =>
     /\ ~matrix.r.panic
     /\ mul(matrix.a, matrix.r.m) = identity(Dim(matrix.a))
     /\ mul(matrix.r.m, matrix.a) = identity(Dim(matrix.a))

C18_PartialRoundStatesEqual ==
  (kind = "rounds" /\ pc = "partial" /\ round >= 1) => state = state_expected

\* C18 as amended: after every partial round, lane 0 of the optimized state
\* equals lane 0 of the reference state plus lane 0 of the constants of the
\* next reference round (the S-box of the next round sees the same input in
\* both); after the last partial round this holds of every lane
C18_PartialRoundStatesShifted ==
  (kind = "rounds" /\ pc = "partial" /\ round >= 1) =>
     LET next_constants == spec_ref.constants[(spec_ref.r_f \div 2) + round + 1]
     IN  /\ state[0] = FAdd(state_expected[0], next_constants[0])
         /\ round = Len(spec.constants.partial) =>
               state = [i \in Lanes |-> FAdd(state_expected[i], next_constants[i])]

C18_Witness ==
  /\ kind = "rounds"
  /\ pc = "partial"
  /\ round = 2
  /\ round < Len(spec.constants.partial)
  /\ state # state_expected
  /\ state[0] = FAdd(state_expected[0],
                     spec_ref.constants[(spec_ref.r_f \div 2) + round + 1][0])

\* The matrix M'' that a sparse matrix holds the transpose of: top row
\* (row[0], col_hat), first column row, identity elsewhere
DoublePrimeOf(sp) ==
  [i \in DOMAIN sp.row |-> [j \in DOMAIN sp.row |->
     IF i = 0 /\ j = 0 THEN sp.row[0]
     ELSE IF i = 0 THEN sp.col_hat[j - 1]
     ELSE IF j = 0 THEN sp.row[i]
     ELSE IF i = j THEN 1 ELSE 0]]

\* The factorisation is exact: M' is the identity with the block A_hat, M''
\* has the top row of A and the column A_hat^-1 * w, and M' * M'' = A
FactorisationExact ==
  /\ ~matrix.r.panic
  /\ matrix.r.prime = prime(T, sub(matrix.a))
  /\ DoublePrimeOf(matrix.r.sp)[0] = matrix.a[0]
  /\ mul_vector(sub(matrix.a),
                [i \in 0 .. (RATE - 1) |-> DoublePrimeOf(matrix.r.sp)[i + 1][0]])
       = w(matrix.a)
  /\ mul(matrix.r.prime, DoublePrimeOf(matrix.r.sp)) = matrix.a

\* C19: for every matrix A whose bottom-right RATE x RATE block is
\* invertible, factorise returns M' and the sparse form of the transpose of
\* M'' with M' * M'' = A
C19_FactoriseExact ==
  (kind = "matrix" /\ matrix.op = "factorise" /\ Det(sub(matrix.a)) # 0) =>
     FactorisationExact

\* m to the power n
RECURSIVE MatPow(_, _)
MatPow(m, n) ==
  IF n = 0 THEN identity(Dim(m))
  ELSE Let(MatPow(m, n - 1), LAMBDA p : mul(m, p))

\* The sparse matrices k .. of a sequence applied one after another
RECURSIVE SparseChain(_, _, _)
SparseChain(sparse_matrices, st, k) ==
  IF k > Len(sparse_matrices) THEN st
  ELSE Let(sparse_apply(sparse_matrices[k], st),
           LAMBDA st2 : SparseChain(sparse_matrices, st2, k + 1))

\* C20: applying pre_sparse_mds and then the sparse matrices in stored order
\* to any vector multiplies it by M^(R_P + 1); with R_P = 0 the pre-sparse
\* MDS is M
C20_CompositionPreserved ==
  (kind = "matrix" /\ matrix.op = "sparse" /\ ~matrix.r.panic) =>
     /\ Len(matrix.r.sparse_matrices) = params.r_p
     /\ \A v \in [Lanes -> {0, 1}] :
           SparseChain(matrix.r.sparse_matrices,
                       mds_apply(matrix.r.pre_sparse_mds, v), 1)
             = mul_vector(MatPow(matrix.a, params.r_p + 1), v)
     /\ params.r_p = 0 => matrix.r.pre_sparse_mds = matrix.a

C20_Witness ==
  /\ kind = "matrix"
  /\ matrix.op = "sparse"
  /\ ~matrix.r.panic
  /\ params.r_p >= 2
  /\ matrix.r.sparse_matrices[1] # matrix.r.sparse_matrices[2]
  /\ MatPow(matrix.a, params.r_p + 1) # matrix.a
  /\ \A v \in [Lanes -> {0, 1}] :
        SparseChain(matrix.r.sparse_matrices,
                    mds_apply(matrix.r.pre_sparse_mds, v), 1)
          = mul_vector(MatPow(matrix.a, params.r_p + 1), v)

\* C21: SparseMDSMatrix::apply multiplies by the dense matrix it stands
\* for, every right-hand side reading the words before the call; a matrix
\* whose bottom-right block is not the identity is rejected by the conversion
C21_SparseApplyIsDense ==
  /\ (kind = "sparse" /\ matrix.op = "apply") =>
        /\ state = mul_vector(matrix.a, matrix.words)
        /\ state[0] = Dot(matrix.r.sp.row, matrix.words)
        /\ \A i \in 1 .. (T - 1) :
              state[i] = FAdd(FMul(matrix.r.sp.col_hat[i - 1], matrix.words[0]),
                              matrix.words[i])
  /\ (kind = "sparse" /\ matrix.op = "from") =>
        /\ matrix.r.panic <=> (\E i, j \in 1 .. (T - 1) :
                                  matrix.a[i][j] # (IF i = j THEN 1 ELSE 0))
        /\ ~matrix.r.panic =>
              /\ matrix.r.sp.row = matrix.a[0]
              /\ \A i \in 1 .. (T - 1) : matrix.r.sp.col_hat[i - 1] = matrix.a[i][0]

C21_Witness ==
  /\ kind = "sparse"
  /\ matrix.op = "apply"
  /\ matrix.words[0] # 0
  /\ matrix.r.sp.col_hat[0] # 0
  /\ state[0] # matrix.words[0]
  /\ state = mul_vector(matrix.a, matrix.words)

\* The accumulator of the partial constants when partial[i] is about to be
\* computed (0-based i, raw constants 1-based): C_raw[h + R_P] for
\* i = R_P - 1, and below that invM * (the accumulator of i + 1) with lane 0
\* cleared plus C_raw[h + i + 1]
RECURSIVE AccBefore(_, _, _, _, _)
AccBefore(inv, raw, h, r_p, i) ==
  IF i >= r_p - 1 THEN raw[h + r_p + 1]
  ELSE LET tmp == mul_vector(inv, AccBefore(inv, raw, h, r_p, i + 1))
       IN  [l \in Lanes |-> FAdd(IF l = 0 THEN 0 ELSE tmp[l], raw[h + i + 2][l])]

\* The accumulator when the loop over the partial constants has finished
AccFinal(inv, raw, h, r_p) ==
  IF r_p = 0 THEN raw[h + 1]
  ELSE LET tmp == mul_vector(inv, AccBefore(inv, raw, h, r_p, 0))
       IN  [l \in Lanes |-> FAdd(IF l = 0 THEN 0 ELSE tmp[l], raw[h + 1][l])]

\* C22: the optimized constants of a built Spec are start[0] = C_raw[0],
\* start[k] = invM * C_raw[k], partial[i] = lane 0 of invM * acc for the
\* backward accumulator acc, start[h] = invM * (final acc) and
\* end[k] = invM * C_raw[h + R_P + 1 + k]
C22_OptimizedConstants ==
  (kind = "cross_test" /\ pc \in {"built", "input", "ref_done", "done"}) =>
     LET h == params.r_f \div 2
         r_p == params.r_p
         raw == spec_ref.constants
         inv == invert(spec.mds_matrices.mds).m
     IN  /\ mul(spec.mds_matrices.mds, inv) = identity(T)
         /\ spec.constants.start[1] = raw[1]
         /\ \A k \in 2 .. h : spec.constants.start[k] = mul_vector(inv, raw[k])
         /\ \A i \in 0 .. (r_p - 1) :
               spec.constants.partial[i + 1]
                 = mul_vector(inv, AccBefore(inv, raw, h, r_p, i))[0]
         /\ spec.constants.start[h + 1] = mul_vector(inv, AccFinal(inv, raw, h, r_p))
         /\ \A k \in 0 .. (h - 2) :
               spec.constants.end[k + 1] = mul_vector(inv, raw[h + r_p + 2 + k])

C22_Witness ==
  /\ kind = "cross_test"
  /\ pc = "built"
  /\ params.r_f = 4
  /\ params.r_p = 3
  /\ spec.constants.partial[1]
       = mul_vector(invert(spec.mds_matrices.mds).m,
                    AccBefore(invert(spec.mds_matrices.mds).m, spec_ref.constants,
                              2, 3, 0))[0]
  /\ mul_vector(invert(spec.mds_matrices.mds).m,
                AccBefore(invert(spec.mds_matrices.mds).m, spec_ref.constants,
                          2, 3, 1))[0] # 0

\* The statements of the full rounds that add the entries k .. last (0-based)
\* of `from` and apply M
RECURSIVE FullRoundsOf(_, _, _)
FullRoundsOf(from, k, last) ==
  IF k > last THEN << >>
  ELSE << << "sbox_full" >>, << "add_constants", from, k >>, << "apply", "mds" >> >>
         \o FullRoundsOf(from, k + 1, last)

\* The statements of the partial rounds k .. last (0-based)
RECURSIVE PartialRoundsOf(_, _)
PartialRoundsOf(k, last) ==
  IF k > last THEN << >>
  ELSE << << "sbox_part" >>, << "add_constant", "partial", k >>,
          << "apply", "sparse_matrices", k >> >>
         \o PartialRoundsOf(k + 1, last)

\* The documented schedule for h = R_F / 2 and R_P
Schedule(h, r_p) ==
  << << "add_constants", "start", 0 >> >>
    \o FullRoundsOf("start", 1, h - 1)
    \o << << "sbox_full" >>, << "add_constants", "start", h >>,
          << "apply", "pre_sparse_mds" >> >>
    \o PartialRoundsOf(0, r_p - 1)
    \o FullRoundsOf("end", 0, h - 2)
    \o << << "sbox_full" >>, << "apply", "mds" >> >>

\* C23: the statements Spec::permute runs are, in order, those of the
\* documented schedule, with R_F full and R_P partial S-box layers in total,
\* and their result is the result of permute
C23_PermuteSchedule ==
  (kind = "schedule") =>
     LET expected == Schedule(params.r_f \div 2, params.r_p)
     IN  /\ Len(trace) <= Len(expected)
         /\ trace = SubSeq(expected, 1, Len(trace))
         /\ pc = "done" =>
               /\ trace = expected
               /\ Cardinality({k \in DOMAIN trace : trace[k] = << "sbox_full" >>})
                    = params.r_f
               /\ Cardinality({k \in DOMAIN trace : trace[k] = << "sbox_part" >>})
                    = params.r_p
               /\ state = permute(spec, state_expected)

C23_Witness ==
  /\ kind = "schedule"
  /\ pc = "done"
  /\ params.r_f = 2
  /\ params.r_p = 2
  /\ Len(trace) = 12
  /\ trace[12] = << "apply", "mds" >>
  /\ trace[11] = << "sbox_full" >>
  /\ trace[10] = << "apply", "sparse_matrices", 1 >>

\* Bit j (1 = most significant) of the `width` low bits of val
BitOf(val, width, j) == (val \div (2 ^ (width - j))) % 2 = 1

\* The 80-bit register described field by field, most significant bit first
Register(field_bits, t, r_f, r_p) ==
  [n \in 1 .. 80 |->
     IF n <= 2 THEN BitOf(1, 2, n)
     ELSE IF n <= 6 THEN BitOf(0, 4, n - 2)
     ELSE IF n <= 18 THEN BitOf(field_bits, 12, n - 6)
     ELSE IF n <= 30 THEN BitOf(t, 12, n - 18)
     ELSE IF n <= 40 THEN BitOf(r_f, 10, n - 30)
     ELSE IF n <= 50 THEN BitOf(r_p, 10, n - 40)
     ELSE TRUE]

\* The bit stream of the feedback register: a sequence s extended by k bits,
\* each the XOR of the bits 80, 67, 57, 42, 29 and 18 places before it
\* (b[0], b[13], b[23], b[38], b[51] and b[62] of the window of 80)
RECURSIVE Stream(_, _)
Stream(s, k) ==
  IF k = 0 THEN s
  ELSE IF k = 1
       THEN Append(s, (((((s[Len(s) - 79] # s[Len(s) - 66]) # s[Len(s) - 56])
                          # s[Len(s) - 41]) # s[Len(s) - 28]) # s[Len(s) - 17]))
       ELSE Let(Stream(s, k \div 2), LAMBDA half : Stream(half, k - (k \div 2)))

\* The window of 80 bits of a stream after k advances
Window(s, k) == SubSeq(s, k + 1, k + 80)

\* C24: Grain::generate starts from the register field_type, sbox_type,
\* field_bits, T, R_F, R_P, 30 ones (most significant bit first) and advances
\* it exactly 160 times, one bit at a time and keeping none, before the
\* first observed bit is drawn
C24_InitialRegisterAndWarmUp ==
  (kind = "generate") =>
     LET register == Register(NUM_BITS, T, params.r_f, params.r_p)
     IN  /\ grain.warmup = 0 => grain.bit_sequence = register
         /\ grain.warmup <= 160
         /\ pc = "init" <=> grain.warmup < 160
         /\ pc = "init" =>
               /\ grain.last <= 1
               /\ grain.seen = << >> /\ grain.drawn = << >> /\ grain.discarded = 0
               /\ grain.bit_sequence
                    = Window(Stream(register, grain.warmup), grain.warmup)
         /\ (pc = "fill" /\ grain.last = 1) =>
               /\ grain.warmup = 160
               /\ grain.seen = << >> /\ grain.drawn = << >> /\ grain.discarded = 0
               /\ grain.bit_sequence = Window(Stream(register, 160), 160)

C24_Witness ==
  /\ kind = "generate"
  /\ pc = "fill"
  /\ grain.last = 1
  /\ grain.warmup = 160
  /\ params.r_f = 4
  /\ params.r_p = 3
  /\ grain.bit_sequence
       = Window(Stream(Register(NUM_BITS, T, params.r_f, params.r_p), 160), 160)

\* C25: every advance of the register computes the new bit as
\* b[0] XOR b[13] XOR b[23] XOR b[38] XOR b[51] XOR b[62] of the register
\* before it, removes b[0], appends the new bit and returns it; the register
\* has 80 bits before and after
C25_Advance ==
  (kind = "generate") =>
     /\ Len(grain.bit_sequence) = 80
     /\ Len(grain.before) = 80
     /\ grain.last >= 1 =>
           /\ grain.bit_sequence
                = Window(Stream(grain.before, grain.last), grain.last)
           /\ grain.out = grain.bit_sequence[80]
           /\ grain.last = 1 =>
                 /\ SubSeq(grain.bit_sequence, 1, 79) = Tail(grain.before)
                 /\ grain.out
                      = (Cardinality({n \in {0, 13, 23, 38, 51, 62} : grain.before[n + 1]})
                           % 2 = 1)

C25_Witness ==
  /\ kind = "generate"
  /\ grain.last = 1
  /\ grain.out
  /\ grain.before[1] # grain.before[63]
  /\ grain.warmup >= 100
  /\ SubSeq(grain.bit_sequence, 1, 79) = Tail(grain.before)

\* The integer whose bit NUM_BITS - 1 - k is the k-th bit (0-based) of bits,
\* for the bits k .. of the sequence
RECURSIVE MsbFirst(_, _)
MsbFirst(bits, k) ==
  IF k >= Len(bits) THEN 0
  ELSE (IF bits[k + 1] THEN 2 ^ (NUM_BITS - 1 - k) ELSE 0) + MsbFirst(bits, k + 1)

\* Byte j of the little-endian bytes of an integer
RECURSIVE ByteOf(_, _)
ByteOf(v, j) ==
  IF v = 0 THEN 0 ELSE IF j = 0 THEN v % 256 ELSE ByteOf(v \div 256, j - 1)

\* C26: an attempt takes NUM_BITS observed bits, the k-th becoming bit
\* NUM_BITS - 1 - k of the little-endian integer; a round constant is taken
\* only if the integer is below the modulus, else the attempt is dropped and
\* a fresh one made; xs and ys take the integer of one attempt reduced
\* modulo the field order; these values are what Grain::generate returns
C26_MsbFirstPacking ==
  (kind = "generate") =>
     /\ Len(grain.seen) <= NUM_BITS
     /\ \A j \in DOMAIN grain.view : grain.view[j] = ByteOf(MsbFirst(grain.seen, 0), j)
     /\ pc = "decode" <=> Len(grain.seen) = NUM_BITS
     /\ (grain.attempt # << >> /\ grain.last = 0) =>
           LET v == MsbFirst(grain.attempt.bits, 0)
           IN  /\ Len(grain.attempt.bits) = NUM_BITS
               /\ grain.seen = << >>
               /\ grain.attempt.rejection => (grain.attempt.accepted <=> v < MODULUS)
               /\ (grain.attempt.rejection /\ grain.attempt.accepted) =>
                     /\ grain.drawn[Len(grain.drawn)] = v
                     /\ Len(grain.drawn) <= RejectionSamples(params.r_f, params.r_p)
               /\ ~grain.attempt.rejection =>
                     /\ grain.attempt.accepted
                     /\ grain.drawn[Len(grain.drawn)] = v % MODULUS
                     /\ Len(grain.drawn) > RejectionSamples(params.r_f, params.r_p)
     /\ pc = "done" =>
           LET g == generate(FALSE, T, RATE, params.r_f, params.r_p)
               n == RejectionSamples(params.r_f, params.r_p)
           IN  /\ Len(g.constants) = params.r_f + params.r_p
               /\ \A r \in 1 .. (params.r_f + params.r_p) : \A l \in Lanes :
                     g.constants[r][l] = grain.drawn[(r - 1) * T + l + 1]
               /\ ~g.panic =>
                     g.mds = cauchy([l \in Lanes |-> grain.drawn[n + l + 1]],
                                    [l \in Lanes |-> grain.drawn[n + T + l + 1]]).m

\* an attempt at a round constant that was dropped, after others were taken
C26_Witness ==
  /\ kind = "generate"
  /\ grain.attempt # << >>
  /\ grain.last = 0
  /\ grain.attempt.rejection
  /\ ~grain.attempt.accepted
  /\ MsbFirst(grain.attempt.bits, 0) >= MODULUS
  /\ Len(grain.drawn) >= 2
  /\ grain.view = FreshView(TRUE)

\* C28: parameter generation terminates: every draw of an observed bit
\* returns, every sampling of a field element ends with an element taken, and
\* Grain::generate reaches its end
C28_GenerationTerminates ==
  /\ \A k \in 0 .. (NUM_BITS - 1) :
        (kind = "generate" /\ pc = "fill" /\ Len(grain.seen) = k)
          ~> (Len(grain.seen) = k + 1)
  /\ \A n \in 0 .. (AllSamples(MaxRF, MaxRP) - 1) :
        (kind = "generate" /\ pc # "done" /\ Len(grain.drawn) = n)
          ~> (Len(grain.drawn) = n + 1)
  /\ <>(kind = "generate" /\ pc = "done"
          /\ Len(grain.drawn) = AllSamples(params.r_f, params.r_p))

\* a generation that ended after pairs were discarded and attempts dropped
C28_Witness ==
  /\ kind = "generate"
  /\ pc = "done"
  /\ params.r_f = 4
  /\ params.r_p = 3
  /\ grain.discarded >= 10
  /\ grain.rejected >= 2
  /\ Len(grain.drawn) = AllSamples(4, 3)

\* C27: squeeze leaves the permuted state and an empty absorption line in the
\* hasher, and a second squeeze with nothing absorbed in between returns lane
\* 1 of the permutation of that state with 1 added to lane 1
C27_SqueezeKeepsState ==
  (kind = "variable" /\ pc = "squeezed") =>
     /\ absorbing = << >>
     /\ Len(absorptions) = 1
     /\ state = permute(spec, absorptions[1].after)
     /\ ret = << state[1] >>
     /\ (calls.squeeze >= 2 /\ input = << >>) =>
           /\ base.absorbing = << >>
           /\ absorptions[1].before = base.state
           /\ absorptions[1].after = [base.state EXCEPT ![1] = FAdd(@, 1)]
           /\ ret = << permute(spec, [base.state EXCEPT ![1] = FAdd(@, 1)])[1] >>

\* a second squeeze right after the first, from a state that is not the
\* initial one, returning another value than the squeeze of a fresh hasher
C27_Witness ==
  /\ kind = "variable"
  /\ pc = "squeezed"
  /\ calls.squeeze = 2
  /\ calls.update = 0
  /\ input = << >>
  /\ base.state # State_default(T)
  /\ state # squeeze(spec, NewHasher).state
  /\ ret # << squeeze(spec, NewHasher).out >>
  /\ ret = << permute(spec, [base.state EXCEPT ![1] = FAdd(@, 1)])[1] >>

\* update(&[]) changes nothing in the hasher as it is now, and the transcript
\* operations, which begin with update(&[]), do what they do without it
EmptyUpdateAbsorbsNothing ==
  (kind = "variable" /\ pc \in {"new", "updated", "squeezed"}) =>
     /\ \E h \in {update(spec, Hasher, << >>)} :
          h.state = state /\ h.absorbing = absorbing /\ h.absorptions = << >>
     /\ \E c \in {squeeze_challenge(spec, Hasher)}, s \in {squeeze(spec, Hasher)} :
          c.value = s.out /\ c.state = [state |-> s.state, absorbing |-> s.absorbing]
     /\ \A scalar \in ScalarSamples :
          \E c \in {common_scalar(spec, Hasher, scalar)},
             u \in {update(spec, Hasher, << scalar >>)} :
             c.state = [state |-> u.state, absorbing |-> u.absorbing]
     /\ \A point \in PointSamples :
          \E c \in {common_point(spec, Hasher, point)}, e \in {encode(point)} :
             IF e.status = "ok"
             THEN \E u \in {update(spec, Hasher, e.out)} :
                     c.state = [state |-> u.state, absorbing |-> u.absorbing]
             ELSE c.state = Hasher

\* C29: update with an empty slice leaves the sponge state and the
\* absorption line of every reachable hasher unchanged and permutes nothing,
\* so the empty updates of squeeze_challenge, common_point and common_scalar
\* absorb nothing
C29_EmptyUpdateNoOp ==
  /\ []EmptyUpdateAbsorbsNothing
  /\ [][(kind = "variable" /\ calls'.update = calls.update + 1
           /\ calls'.elements = calls.elements)
          => (state' = state /\ absorbing' = absorbing /\ absorptions' = << >>)]_vars

\* an empty update was run on a hasher whose absorption line held an element
C29_Witness ==
  /\ kind = "variable"
  /\ pc = "updated"
  /\ calls.update = 3
  /\ calls.elements = 1
  /\ absorbing # << >>
  /\ absorptions = << >>


(***************************************************************************)
(* C30: write errors of the underlying stream                              *)
(***************************************************************************)
\* The last operation was a write_point or write_scalar whose write_all failed
WriteFailed ==
  /\ kind = "bounded_writer"
  /\ ret.op \in {"write_point", "write_scalar"}
  /\ ret.status = "write_err"

\* What common_point / common_scalar of the value of the last write returns
\* on the hasher the transcript had before the call
CommonOfLastWrite ==
  IF ret.op = "write_point"
  THEN common_point(spec, base, ret.value)
  ELSE common_scalar(spec, base, ret.value)

\* The bytes the last write hands to write_all
BytesOfLastWrite ==
  IF ret.op = "write_point"
  THEN BytesOf(to_bytes(ret.value), base_n_bytes)
  ELSE BytesOf(to_repr(ret.value), n_bytes)

\* C30 as stated: when the underlying writer fails during write_point or
\* write_scalar, the call returns that error and the sponge state and the
\* absorb buffer of the transcript are the same as before the call
C30_WriteErrorsAtomic ==
  WriteFailed => (writer.state = base)

\* C30, amended: when the underlying writer fails during write_point or
\* write_scalar, the call returns that error, and the value has already been
\* absorbed: the sponge state and the absorb buffer are those common_point /
\* common_scalar leaves, and the stream holds the bytes the writer took, a
\* proper prefix of the encoding.  An encoding error of write_point comes
\* before the absorption, and leaves the state, the buffer and the stream as
\* they were before the call.
C30_WriteErrorsAfterAbsorption ==
  (kind = "bounded_writer" /\ ret.op \in {"write_point", "write_scalar"})
    => /\ (ret.status = "write_err")
            => /\ CommonOfLastWrite.status = "ok"
               /\ writer.state = CommonOfLastWrite.state
               /\ input = CommonOfLastWrite.input
               /\ writer.room = << 0 >>
               /\ \E n \in 0 .. (Len(BytesOfLastWrite) - 1) :
                    writer.writer = ret.stream \o SubSeq(BytesOfLastWrite, 1, n)
       /\ (ret.status = "err")
            => /\ ret.op = "write_point"
               /\ encode(ret.value).status # "ok"
               /\ writer.state.state = base.state
               /\ writer.state.absorbing = base.absorbing
               /\ writer.writer = ret.stream
       /\ (ret.status = "ok")
            => /\ writer.state = CommonOfLastWrite.state
               /\ writer.writer = ret.stream \o BytesOfLastWrite

\* A scalar write failed on a full stream after a point had been written, and
\* the hasher of the transcript is not the one it had before the call
C30_Witness ==
  /\ WriteFailed
  /\ ret.op = "write_scalar"
  /\ Len(script) = 1
  /\ script[1].op = "point"
  /\ writer.state # base
  /\ writer.state = CommonOfLastWrite.state

=============================================================================
